---- MODULE Spec2Model ----
(***************************************************************************)
(* GitOps restore orchestrator (src/shared/restore/gitops_restore.py).     *)
(*                                                                         *)
(* One GitOpsRestoreOrchestrator on one asyncio event loop.  A step of the *)
(* model is what runs between two suspension points of the loop: a public  *)
(* API coroutine (none of them suspends after its first statement), or the *)
(* part of a restore task between two asyncio.sleep calls.  The helpers    *)
(* that stand for external systems (object store, git, cluster, GitOps     *)
(* controller) return or raise as the environment chooses.                 *)
(***************************************************************************)
EXTENDS Integers, Sequences, FiniteSets, TLC

\* ------------------------------------------------------------------ bounds
MaxTasks == 2
MaxIds == 2
MaxLimit == 2
MaxUnhealthy == 1
MaxEvents == 2
MaxScans == 3

\* ----------------------------------------------------------- program values
sync_duration == 2
TOTAL_STEPS == 7
max_wait_time == 300

\* Python's None where a message (a non-empty tuple) or a list may stand
None == <<>>
RestoreIds == 1..MaxIds

PLANNING == "planning"
VALIDATION == "validation"
PREPARATION == "preparation"
GITOPS_SYNC == "gitops_sync"
VERIFICATION == "verification"
CLEANUP == "cleanup"
COMPLETED == "completed"
FAILED == "failed"

RestorePhase ==
  {PLANNING, VALIDATION, PREPARATION, GITOPS_SYNC, VERIFICATION, CLEANUP, COMPLETED, FAILED}

CLUSTER_REBUILD == "cluster_rebuild"
NAMESPACE_RECOVERY == "namespace_recovery"
DRScenario == {CLUSTER_REBUILD, NAMESPACE_RECOVERY}

\* The requests submitted: one per restore_id.  Odd ids ask for a cluster
\* rebuild without functional tests, even ids for a namespace recovery with
\* validation_config = {'functional_tests': True}.
RequestOf(id) ==
  [restore_id |-> id, backup_id |-> "b1", target_cluster |-> "target",
   dr_scenario |-> IF id % 2 = 1 THEN CLUSTER_REBUILD ELSE NAMESPACE_RECOVERY,
   functional_tests |-> (id % 2 = 0), dry_run |-> FALSE]

RestoreRequest == {RequestOf(id) : id \in RestoreIds}

\* backup metadata as the object store returns it: the resource counts per kind
BackupMetadata == {[found |-> TRUE, resources |-> <<5, 12, 8, 15, 6>>]}
\* what _load_backup_metadata yields for a backup it cannot resolve (falsy)
NoMetadata == [found |-> FALSE]

\* health reports as the cluster may give them to _validate_resource_health
HealthReports ==
  {[healthy_resources |-> 25, degraded_resources |-> 2, unhealthy_resources |-> n] :
     n \in 0..MaxUnhealthy}

\* ------------------------------------------------------------ pure helpers
RECURSIVE SumSeq(_)
SumSeq(s) == IF s = <<>> THEN 0 ELSE Head(s) + SumSeq(Tail(s))

\* percent_complete is a float; it is kept as the exact fraction <<num, den>>
Percent(steps_completed, total_steps) == <<steps_completed * 100, total_steps>>
PercentLeq(a, b) == a[1] * b[2] <= b[1] * a[2]
PercentIs(a, n) == a[1] = n * a[2]

create_restore_plan(request, backup_metadata) ==
  [restore_id |-> request.restore_id,
   total_resources |-> SumSeq(backup_metadata.resources),
   total_steps |-> TOTAL_STEPS,
   estimated_duration |-> IF request.dr_scenario = CLUSTER_REBUILD THEN 120 ELSE 30,
   requires_cluster_bootstrap |-> request.dr_scenario = CLUSTER_REBUILD]

\* a RestoreProgress that counts the six phases only
SixStepRestoreProgress ==
  [phase |-> PLANNING,
   percent_complete |-> <<0, 1>>,
   current_step |-> <<"Initializing restore operation">>,
   steps_completed |-> 0,
   total_steps |-> 6,
   resources_processed |-> 0,
   resources_total |-> 0,
   errors |-> <<>>,
   warnings |-> <<>>]

NewRestoreProgress ==
  [phase |-> PLANNING,
   percent_complete |-> <<0, 1>>,
   current_step |-> <<"Initializing restore operation">>,
   steps_completed |-> 0,
   total_steps |-> TOTAL_STEPS,
   resources_processed |-> 0,
   resources_total |-> 0,
   errors |-> <<>>,
   warnings |-> <<>>]

\* a phase entry that writes the step text and leaves progress.phase as it was
EnterPhaseStepOnly(p, phase, step) == [p EXCEPT !.current_step = step]

\* on entry to a phase: progress.phase and progress.current_step
EnterPhase(p, phase, step) == [p EXCEPT !.phase = phase, !.current_step = step]

\* on successful exit of a phase: steps_completed, then percent_complete from it
ExitPhase(p, n) ==
  [p EXCEPT !.steps_completed = n, !.percent_complete = Percent(n, p.total_steps)]

\* ----------------------------------------------------------------- messages
\* the message of _phase_planning without the backup it is about
MsgBackupNotFoundPlain(backup_id) == <<"Backup not found or inaccessible">>
MsgBackupNotFound(backup_id) == <<"Backup not found or inaccessible", backup_id>>
MsgClusterAccess(cluster) == <<"Cannot access target cluster", cluster>>
MsgGitopsAccess == <<"Cannot access GitOps repository">>
MsgPermissions == <<"Insufficient permissions for restore operation">>
MsgManifest == <<"Manifest missing apiVersion">>
MsgRaised(helper) == <<"raised", helper>>
\* git's refusal to clone into a destination that exists and is not empty
MsgDestinationExists == <<"destination path already exists", "gitops_repo">>

\* ------------------------------------------------- resource transformer
\* Python dicts are objects of a heap (a sequence; the address of a dict is its
\* index).  A dict is a function from keys to values; a value is either a
\* reference to another dict or a scalar (a tuple of strings or numbers).
Ref(a) == [ref |-> a, val |-> <<>>]
Val(v) == [ref |-> 0, val |-> v]
EmptyDict == <<>>

\* d[k] = v
DictSet(d, k, v) == [x \in DOMAIN d \cup {k} |-> IF x = k THEN v ELSE d[x]]

\* d.update(e)
DictUpdate(d, e) ==
  [x \in DOMAIN d \cup DOMAIN e |-> IF x \in DOMAIN e THEN e[x] ELSE d[x]]

\* the heap after h[a][k] = v
SetKey(h, a, k, v) == [h EXCEPT ![a] = DictSet(@, k, v)]

\* the heap after h[a][k] = {}: a new empty dict, referred to from h[a][k]
SetNewDict(h, a, k) == SetKey(Append(h, EmptyDict), a, k, Ref(Len(h) + 1))

\* the value of the dict at address a with the dicts it refers to, to any depth
RECURSIVE Deep(_, _)
Deep(h, a) ==
  [k \in DOMAIN h[a] |->
     IF h[a][k].ref # 0 THEN [ref |-> 1, val |-> Deep(h, h[a][k].ref)] ELSE h[a][k]]

\* a namespace mapping that puts the target in front of the namespace
map_namespace_prefixed(request, namespace) ==
  IF Len(request.target_namespaces) = 1
  THEN <<request.target_namespaces[1]>> \o namespace
  ELSE namespace

\* a namespace mapping that takes the first target however many are given
map_namespace_first(request, namespace) == <<request.target_namespaces[1]>>

\* lines 592-594: the namespace after the mapping
map_namespace(request, namespace) ==
  IF Len(request.target_namespaces) = 1 THEN <<request.target_namespaces[1]>> ELSE namespace

\* lines 577-581
restore_labels(request) ==
  [k \in {"restore.gitops.io/restore-id", "restore.gitops.io/source-backup",
          "restore.gitops.io/dr-scenario"} |->
     CASE k = "restore.gitops.io/restore-id" -> Val(<<request.restore_id>>)
       [] k = "restore.gitops.io/source-backup" -> Val(<<request.backup_id>>)
       [] OTHER -> Val(<<request.dr_scenario>>)]

\* lines 584-588; now is datetime.utcnow()
restore_annotations(request, now) ==
  [k \in {"restore.gitops.io/restored-at", "restore.gitops.io/source-cluster",
          "restore.gitops.io/target-cluster"} |->
     CASE k = "restore.gitops.io/restored-at" -> Val(<<now>>)
       [] k = "restore.gitops.io/source-cluster" -> Val(<<request.source_cluster>>)
       [] OTHER -> Val(<<request.target_cluster>>)]

\* _apply_gitops_transformations(request, resource) run on heap h at time now:
\* the heap afterwards and the address of the dict returned
apply_gitops_transformations(h, request, resource, now) ==
  LET transformed == Len(h) + 1
      h1 == Append(h, h[resource])                     \* resource.copy()
      h2 == IF "metadata" \notin DOMAIN h1[transformed]
            THEN SetNewDict(h1, transformed, "metadata") ELSE h1
      metadata == h2[transformed]["metadata"].ref
      h3 == IF "labels" \notin DOMAIN h2[metadata]
            THEN SetNewDict(h2, metadata, "labels") ELSE h2
      h4 == IF "annotations" \notin DOMAIN h3[metadata]
            THEN SetNewDict(h3, metadata, "annotations") ELSE h3
      labels == h4[metadata]["labels"].ref
      annotations == h4[metadata]["annotations"].ref
      h5 == [h4 EXCEPT ![labels] = DictUpdate(@, restore_labels(request))]
      h6 == [h5 EXCEPT ![annotations] = DictUpdate(@, restore_annotations(request, now))]
      h7 == IF /\ request.target_namespaces # <<>>
               /\ "namespace" \in DOMAIN h6[metadata]
               /\ h6[metadata]["namespace"].val # <<>>
            THEN SetKey(h6, metadata, "namespace",
                        Val(map_namespace(request, h6[metadata]["namespace"].val)))
            ELSE h6
  IN  [heap |-> h7, transformed |-> transformed]

\* -------------------------------------------------------------------- state
VARIABLES
  active_restores,   \* self.active_restores: restore_id -> a RestoreProgress object
  progress,          \* the RestoreProgress objects, in the order start_restore made them
  restore_history,   \* self.restore_history
  tasks,             \* the tasks made by asyncio.create_task(self._execute_restore(request))
  phase_hist,        \* per RestoreProgress object: the values its phase field has taken
  percent_hist,      \* per RestoreProgress object: the values of percent_complete
  work_dir,          \* self.work_dir exists on disk
  gitops_repo,       \* 0, or the task whose clone is at work_dir / 'gitops_repo'
  auto_sync,         \* self.config['gitops']['auto_sync'] (True when not set)
  ahead,             \* the tasks that have run since a task still waiting was made
  ret,               \* outcome of the public API call, when the last step was one
  heap,              \* the dicts the resource transformer works on
  call,              \* the calls of _apply_gitops_transformations made on them
  trigger,           \* the GitOpsTriggerHandler, its surroundings and its calls
  monitor,           \* monitor_trigger_files: its locals and the trigger directory
  twin               \* one restore run twice: as submitted, and with dry_run set

vars ==
  <<active_restores, progress, restore_history, tasks, phase_hist, percent_hist,
    work_dir, gitops_repo, auto_sync, ahead, ret, heap, call, trigger, monitor, twin>>

\* the variables of the resource transformer
tvars == <<heap, call>>

\* the variables of the backup-completion trigger
gvars == <<trigger, monitor>>

\* no trigger handler made
NoTrigger == [calls |-> 0]

\* no monitor running
NoMonitor == [scans |-> 0]

\* no restore run twice
NoTwin == [steps |-> 0]

\* no resource given to the transformer
NoTransform == [calls |-> 0]

NoCall == [op |-> "none"]

Tasks == 1..Len(tasks)
Objects == 1..Len(progress)

Scheduled == "scheduled"
Crashed == "crashed"
Terminal == {COMPLETED, FAILED, Crashed}

NewTask(request) ==
  [request |-> request, pc |-> Scheduled, ref |-> 0, i |-> 0, entered |-> <<>>,
   effects |-> <<>>, cleanup_attempted |-> FALSE, exc |-> None, hist0 |-> 0, hist1 |-> 0,
   health_reports |-> <<>>]

Init ==
  /\ active_restores = <<>>
  /\ progress = <<>>
  /\ restore_history = <<>>
  /\ tasks = <<>>
  /\ phase_hist = <<>>
  /\ percent_hist = <<>>
  /\ work_dir = TRUE
  /\ gitops_repo = 0
  /\ auto_sync \in BOOLEAN
  /\ ahead = {}
  /\ ret = NoCall
  /\ heap = <<>>
  /\ call = NoTransform
  /\ trigger = NoTrigger
  /\ monitor = NoMonitor
  /\ twin = NoTwin

\* ------------------------------------------------- the dict and the history
Contains(a, id) == id \in DOMAIN a

\* a registration that makes every entry refer to the progress just made
RegisterActiveShared(a, id, o) == [x \in DOMAIN a \cup {id} |-> o]

RegisterActive(a, id, o) ==
  [x \in DOMAIN a \cup {id} |-> IF x = id THEN o ELSE a[x]]

\* a removal that leaves the entry in place
KeepActive(a, id) == a

RemoveActive(a, id) == [x \in DOMAIN a \ {id} |-> a[x]]

\* a history that puts the newest result first
PrependHistory(h, result) == <<result>> \o h

AppendHistory(h, result) == Append(h, result)

\* the values a field takes: a write of the value it already has is no change
RECURSIVE Changes(_, _)
Changes(h, written) ==
  IF written = <<>> THEN h
  ELSE Changes(IF h # <<>> /\ h[Len(h)] = Head(written) THEN h ELSE Append(h, Head(written)),
               Tail(written))

\* ------------------------------------------------------- _execute_restore
\* A run record carries what one step of a task has done so far:
\* p the RestoreProgress, exc the exception raised (None: none), phases and
\* percents the values written to progress.phase and progress.percent_complete,
\* effects the external operations done.
StartRun(p) ==
  [p |-> p, exc |-> None, phases |-> <<>>, percents |-> <<>>, effects |-> <<>>,
   cleanup |-> FALSE, health_reports |-> <<>>,
   work_dir |-> work_dir, gitops_repo |-> gitops_repo]

Enter(r, phase, step) ==
  IF r.exc # None THEN r
  ELSE [r EXCEPT !.p = EnterPhase(@, phase, step), !.phases = Append(@, phase)]

Exit(r, n) ==
  IF r.exc # None THEN r
  ELSE [r EXCEPT !.p = ExitPhase(@, n),
                 !.percents = Append(@, ExitPhase(r.p, n).percent_complete)]

RaiseIf(r, cond, msg) == IF r.exc = None /\ cond THEN [r EXCEPT !.exc = msg] ELSE r

Effect(r, e) == IF r.exc # None THEN r ELSE [r EXCEPT !.effects = Append(@, e)]

\* a planning that ends a dry run once the plan is made
phase_planning_dry_stops(r, request, backup_metadata) ==
  LET r1 == Enter(r, PLANNING, <<"Analyzing backup and planning restore">>)
      r2 == RaiseIf(r1, ~backup_metadata.found, MsgBackupNotFound(request.backup_id))
      restore_plan == create_restore_plan(request, backup_metadata)
      r3 == RaiseIf(r2, request.dry_run, MsgRaised("dry_run"))
  IN  IF r3.exc # None THEN r3
      ELSE Exit([r3 EXCEPT !.p.resources_total = restore_plan.total_resources,
                           !.p.total_steps = restore_plan.total_steps], 1)
\* _phase_planning, whole (it has no suspension point)
phase_planning(r, request, backup_metadata) ==
  LET r1 == Enter(r, PLANNING, <<"Analyzing backup and planning restore">>)
      r2 == RaiseIf(r1, ~backup_metadata.found, MsgBackupNotFound(request.backup_id))
      restore_plan == create_restore_plan(request, backup_metadata)
  IN  IF r2.exc # None THEN r2
      ELSE Exit([r2 EXCEPT !.p.resources_total = restore_plan.total_resources,
                           !.p.total_steps = restore_plan.total_steps], 1)

\* _phase_validation up to its first await
phase_validation_enter(r) ==
  Enter(r, VALIDATION, <<"Validating cluster and GitOps repository">>)

\* a validation that clones the repository before it looks at the permissions
phase_validation_exit_late(r, request, permitted, conflicts) ==
  Exit(RaiseIf(Effect(r, "clone"), ~permitted, MsgPermissions), 2)

\* _phase_validation from the answer of _validate_restore_permissions on
phase_validation_exit(r, request, permitted, conflicts) ==
  LET r1 == RaiseIf(r, ~permitted, MsgPermissions)
      warn == conflicts # <<>> /\ ~(request.dr_scenario = CLUSTER_REBUILD)
  IN  IF r1.exc # None THEN r1
      ELSE Exit([r1 EXCEPT !.p.warnings =
                   IF warn
                   THEN @ \o [k \in 1..Len(conflicts) |-> <<"Conflict detected", conflicts[k]>>]
                   ELSE @], 2)

\* _clone_gitops_repo: git refuses a destination that holds a clone already
clone_gitops_repo(r, t, clone_ok) ==
  LET r0 == RaiseIf(r, r.gitops_repo # 0, MsgDestinationExists)
      r1 == RaiseIf(r0, ~clone_ok, MsgRaised("clone_gitops_repo"))
  IN  IF r1.exc # None THEN r1
      ELSE Effect([r1 EXCEPT !.work_dir = TRUE, !.gitops_repo = t], "clone")

\* a preparation that commits and pushes the manifests before it validates them
phase_preparation_commit_first(r, t, clone_ok, manifests_ok) ==
  LET r1 == Enter(r, PREPARATION, <<"Preparing GitOps manifests">>)
      r2 == Effect(clone_gitops_repo(r1, t, clone_ok), "commit_push")
      r3 == RaiseIf(r2, ~manifests_ok, MsgManifest)
  IN  Exit(r3, 3)

\* _phase_preparation, whole
phase_preparation(r, t, clone_ok, manifests_ok) ==
  LET r1 == Enter(r, PREPARATION, <<"Preparing GitOps manifests">>)
      r2 == clone_gitops_repo(r1, t, clone_ok)
      r3 == RaiseIf(r2, ~manifests_ok, MsgManifest)
  IN  Exit(r3, 3)

\* _commit_gitops_manifests: git.Repo(repo_path) needs the clone to be there
commit_gitops_manifests(r, commit_ok) ==
  LET r1 == RaiseIf(r, ~commit_ok \/ r.gitops_repo = 0, MsgRaised("commit_gitops_manifests"))
  IN  Effect(r1, "commit_push")

\* a sync phase that triggers the sync before it commits and pushes
phase_gitops_sync_enter_trigger_first(r, commit_ok) ==
  LET r1 == Enter(r, GITOPS_SYNC, <<"Synchronizing GitOps manifests">>)
      r2 == IF auto_sync THEN Effect(r1, "trigger_sync") ELSE r1
  IN  commit_gitops_manifests(r2, commit_ok)

\* a sync phase that triggers the sync whatever gitops.auto_sync says
phase_gitops_sync_enter_always_trigger(r, commit_ok) ==
  LET r1 == Enter(r, GITOPS_SYNC, <<"Synchronizing GitOps manifests">>)
      r2 == commit_gitops_manifests(r1, commit_ok)
  IN  Effect(r2, "trigger_sync")

\* _phase_gitops_sync up to its first await
phase_gitops_sync_enter(r, commit_ok) ==
  LET r1 == Enter(r, GITOPS_SYNC, <<"Synchronizing GitOps manifests">>)
      r2 == commit_gitops_manifests(r1, commit_ok)
  IN  IF auto_sync THEN Effect(r2, "trigger_sync") ELSE r2

\* a monitor loop that also reports its advance in percent_complete
monitor_gitops_sync_step_percent(r, i) ==
  [r EXCEPT !.p.current_step = <<"GitOps sync in progress", i + 1, sync_duration>>,
            !.p.percent_complete = <<(i + 1) * 100, sync_duration>>]

\* _monitor_gitops_sync, body of the loop after sleep number i
monitor_gitops_sync_step(r, i) ==
  [r EXCEPT !.p.current_step = <<"GitOps sync in progress", i + 1, sync_duration>>]

\* _phase_gitops_sync after _monitor_gitops_sync has returned
phase_gitops_sync_exit(r) == Exit(r, 4)

\* _phase_verification up to its first await
phase_verification_enter(r) == Enter(r, VERIFICATION, <<"Verifying restored resources">>)

\* health_report = await self._validate_resource_health(request)
validate_resource_health(r, checked, health_report) ==
  LET r1 == RaiseIf(r, ~checked, MsgRaised("validate_resource_health"))
  IN  IF r1.exc # None THEN r1
      ELSE [r1 EXCEPT !.health_reports = Append(@, health_report)]

\* _phase_verification after the last await
phase_verification_exit(r) == Exit(r, 5)

\* _phase_cleanup, whole
phase_cleanup(r, notified) ==
  LET r1 == Enter(r, CLEANUP, <<"Cleaning up temporary resources">>)
      r2 == IF r1.exc = None
            THEN [r1 EXCEPT !.cleanup = TRUE,
                            !.work_dir = FALSE,
                            !.gitops_repo = 0]
            ELSE r1
      r3 == RaiseIf(r2, ~notified, MsgRaised("send_completion_notification"))
  IN  Exit(r3, 6)

\* _execute_restore, lines 215-218
CompleteSuccessfully(p) ==
  [p EXCEPT !.phase = COMPLETED,
            !.percent_complete = <<100, 1>>,
            !.current_step = <<"Restore completed successfully">>]

\* _execute_restore, lines 235-236
ExceptHandler(p, msg) == [p EXCEPT !.phase = FAILED, !.errors = Append(@, msg)]

SuccessResult(request, p) ==
  [restore_id |-> request.restore_id,
   success |-> TRUE,
   phase |-> COMPLETED,
   resources_restored |-> p.resources_processed,
   resources_failed |-> Len(p.errors),
   git_commits |-> <<>>,
   validation_report |-> <<>>,
   error_summary |-> None,
   recommendations |-> None]

\* a failed result built without error_summary
FailedResultNoSummary(request, p, msg) ==
  [restore_id |-> request.restore_id,
   success |-> FALSE,
   phase |-> FAILED,
   resources_restored |-> p.resources_processed,
   resources_failed |-> Len(p.errors),
   git_commits |-> <<>>,
   validation_report |-> <<>>,
   error_summary |-> None,
   recommendations |-> None]

FailedResult(request, p, msg) ==
  [restore_id |-> request.restore_id,
   success |-> FALSE,
   phase |-> FAILED,
   resources_restored |-> p.resources_processed,
   resources_failed |-> Len(p.errors),
   git_commits |-> <<>>,
   validation_report |-> <<>>,
   error_summary |-> msg,
   recommendations |-> None]

\* what the target cluster holds that a restore would collide with
Conflicts == {<<>>, <<"c1">>}

\* _check_restore_conflicts: the target cluster is looked at unless the request
\* is a dry run
check_restore_conflicts(request, found) ==
  IF ~request.dry_run THEN found ELSE <<>>

\* The event loop runs the callbacks of its ready queue in order.  The first
\* step of a new task is queued by create_task, and a task that sleeps is queued
\* again only when its timer has fired: while a new task waits for its first
\* step, any other task runs at most once (its wake-up was queued before).
\* The order in which timers fire is the environment's.
MayRun(t) == (\E u \in Tasks : tasks[u].pc = Scheduled) => t \notin ahead

HasRun(t) ==
  ahead' = IF \E u \in Tasks \ {t} : tasks[u].pc = Scheduled THEN ahead \cup {t} ELSE {}

\* The end of one step of task t, bound to RestoreProgress object o: the
\* except clause when the step raised, lines 215-231 when it ran to the end of
\* the last phase (nextpc = COMPLETED), and in both cases the finally clause.
Settle(t, o, r, nextpc, i) ==
  LET request == tasks[t].request
      failed == r.exc # None
      completes == ~failed /\ nextpc = COMPLETED
      ends == failed \/ completes
      p1 == IF failed THEN ExceptHandler(r.p, r.exc)
            ELSE IF completes THEN CompleteSuccessfully(r.p)
            ELSE r.p
      written == r.phases \o (IF failed THEN <<FAILED>>
                              ELSE IF completes THEN <<COMPLETED>> ELSE <<>>)
      result == IF failed THEN FailedResult(request, p1, r.exc)
                ELSE SuccessResult(request, p1)
      hist == Changes(phase_hist[o], written)
      percents == r.percents \o (IF completes THEN <<p1.percent_complete>> ELSE <<>>)
  IN  /\ progress' = [progress EXCEPT ![o] = p1]
      /\ phase_hist' = [phase_hist EXCEPT ![o] = hist]
      /\ percent_hist' = [percent_hist EXCEPT ![o] = Changes(@, percents)]
      /\ restore_history' =
           IF ends THEN AppendHistory(restore_history, result) ELSE restore_history
      /\ active_restores' =
           IF ends /\ Contains(active_restores, request.restore_id)
           THEN RemoveActive(active_restores, request.restore_id)
           ELSE active_restores
      /\ tasks' = [tasks EXCEPT ![t] =
           [@ EXCEPT !.pc = IF failed THEN FAILED ELSE nextpc,
                     !.ref = o,
                     !.i = i,
                     !.entered = @ \o written,
                     !.effects = @ \o r.effects,
                     !.cleanup_attempted = @ \/ r.cleanup,
                     !.exc = r.exc,
                     !.health_reports = @ \o r.health_reports,
                     !.hist0 = IF tasks[t].ref = 0 THEN Len(phase_hist[o]) ELSE @,
                     !.hist1 = IF ends THEN Len(hist) ELSE 0]]
      /\ work_dir' = r.work_dir
      /\ gitops_repo' = r.gitops_repo
      /\ ret' = NoCall
      /\ HasRun(t)
      /\ UNCHANGED auto_sync

At(t, pc) == t \in Tasks /\ tasks[t].pc = pc /\ MayRun(t)
Run(t) == StartRun(progress[tasks[t].ref])

\* First step of the task: line 193, _phase_planning, and _phase_validation up
\* to the sleep in _validate_cluster_access.  Tasks start in creation order.
ExecuteRestore(t) ==
  /\ At(t, Scheduled)
  /\ \A u \in 1..(t - 1) : tasks[u].pc # Scheduled
  /\ LET id == tasks[t].request.restore_id IN
     IF ~Contains(active_restores, id)
     THEN \* KeyError at line 193, outside the try statement: the task ends
          /\ tasks' = [tasks EXCEPT ![t].pc = Crashed]
          /\ ret' = NoCall
          /\ HasRun(t)
          /\ UNCHANGED <<active_restores, progress, restore_history, phase_hist,
                         percent_hist, work_dir, gitops_repo, auto_sync>>
     ELSE \E backup_metadata \in BackupMetadata \cup {NoMetadata} :
            LET o == active_restores[id]
                r1 == phase_planning(StartRun(progress[o]), tasks[t].request, backup_metadata)
            IN  Settle(t, o, phase_validation_enter(r1), "validate_cluster_access", 0)

ValidateClusterAccess(t) ==
  /\ At(t, "validate_cluster_access")
  /\ \E ok \in BOOLEAN :
       Settle(t, tasks[t].ref,
              RaiseIf(Run(t), ~ok, MsgClusterAccess(tasks[t].request.target_cluster)),
              "validate_gitops_access", 0)

ValidateGitopsAccess(t) ==
  /\ At(t, "validate_gitops_access")
  /\ \E ok \in BOOLEAN :
       Settle(t, tasks[t].ref, RaiseIf(Run(t), ~ok, MsgGitopsAccess),
              "validate_restore_permissions", 0)

\* From the answer of _validate_restore_permissions through _phase_preparation
\* to the first sleep of _phase_gitops_sync.
ValidateRestorePermissions(t) ==
  /\ At(t, "validate_restore_permissions")
  /\ \E permitted, clone_ok, manifests_ok, commit_ok \in BOOLEAN, found \in Conflicts :
       LET conflicts == check_restore_conflicts(tasks[t].request, found)
           r1 == phase_validation_exit(Run(t), tasks[t].request, permitted, conflicts)
           r2 == phase_preparation(r1, t, clone_ok, manifests_ok)
           r3 == phase_gitops_sync_enter(r2, commit_ok)
       IN  Settle(t, tasks[t].ref, r3,
                  IF auto_sync THEN "trigger_gitops_sync" ELSE "monitor_gitops_sync", 0)

TriggerGitopsSync(t) ==
  /\ At(t, "trigger_gitops_sync")
  /\ \E ok \in BOOLEAN :
       Settle(t, tasks[t].ref, RaiseIf(Run(t), ~ok, MsgRaised("trigger_gitops_sync")),
              "monitor_gitops_sync", 0)

\* One turn of the loop of _monitor_gitops_sync; after the last one, the rest
\* of _phase_gitops_sync and _phase_verification up to its first sleep.
MonitorGitopsSync(t) ==
  /\ At(t, "monitor_gitops_sync")
  /\ LET i == tasks[t].i
         r1 == monitor_gitops_sync_step(Run(t), i)
     IN  IF i + 1 < sync_duration
         THEN Settle(t, tasks[t].ref, r1, "monitor_gitops_sync", i + 1)
         ELSE Settle(t, tasks[t].ref,
                     phase_verification_enter(phase_gitops_sync_exit(r1)),
                     "wait_for_resources_ready", 0)

\* the rest of _execute_restore once _phase_verification has no await left
Finish(t, r, notified) ==
  Settle(t, tasks[t].ref, phase_cleanup(phase_verification_exit(r), notified), COMPLETED, 0)

WaitForResourcesReady(t) ==
  /\ At(t, "wait_for_resources_ready")
  /\ \E ready, checked, notified \in BOOLEAN, health_report \in HealthReports :
       LET r0 == RaiseIf(Run(t), ~ready, MsgRaised("wait_for_resources_ready"))
           r1 == validate_resource_health(r0, checked, health_report) IN
       IF r1.exc = None /\ tasks[t].request.functional_tests
       THEN Settle(t, tasks[t].ref, r1, "run_functional_tests", 0)
       ELSE Finish(t, r1, notified)

RunFunctionalTests(t) ==
  /\ At(t, "run_functional_tests")
  /\ \E passed, notified \in BOOLEAN :
       Finish(t, RaiseIf(Run(t), ~passed, MsgRaised("run_functional_tests")), notified)

\* ---------------------------------------------------------------- public API
\* op and id: the call and its argument; raised: it raised; found: the bool it
\* returned, or whether it returned an object (for start_restore: whether
\* validate_request returned); value: the id or the object returned (0: None);
\* rows: the list, or for get_dr_capabilities the dict, returned
Ret(op, id, raised, found, value, rows) ==
  [op |-> op, id |-> id, raised |-> raised, found |-> found, value |-> value, rows |-> rows]

\* a start_restore that registers the restore before it validates the request
start_restore_unchecked(request, valid) ==
  /\ Len(tasks) < MaxTasks
  /\ progress' = Append(progress, NewRestoreProgress)
  /\ phase_hist' = Append(phase_hist, <<NewRestoreProgress.phase>>)
  /\ percent_hist' = Append(percent_hist, <<NewRestoreProgress.percent_complete>>)
  /\ active_restores' =
       RegisterActive(active_restores, request.restore_id, Len(progress) + 1)
  /\ tasks' = Append(tasks, NewTask(request))
  /\ ret' = Ret("start_restore", request.restore_id, ~valid, valid,
                IF valid THEN request.restore_id ELSE 0, <<>>)
  /\ UNCHANGED <<restore_history, work_dir, gitops_repo, auto_sync, ahead>>

\* start_restore: validate_request raises or returns; then lines 170-185
start_restore(request, valid) ==
  IF ~valid
  THEN /\ ret' = Ret("start_restore", request.restore_id, TRUE, FALSE, 0, <<>>)
       /\ UNCHANGED <<active_restores, progress, restore_history, tasks, phase_hist, percent_hist,
                      work_dir, gitops_repo, auto_sync, ahead>>
  ELSE /\ Len(tasks) < MaxTasks
       /\ progress' = Append(progress, NewRestoreProgress)
       /\ phase_hist' = Append(phase_hist, <<NewRestoreProgress.phase>>)
       /\ percent_hist' = Append(percent_hist, <<NewRestoreProgress.percent_complete>>)
       /\ active_restores' =
            RegisterActive(active_restores, request.restore_id, Len(progress) + 1)
       /\ tasks' = Append(tasks, NewTask(request))
       /\ ret' = Ret("start_restore", request.restore_id, FALSE, TRUE, request.restore_id, <<>>)
       /\ UNCHANGED <<restore_history, work_dir, gitops_repo, auto_sync, ahead>>

StartRestore == \E request \in RestoreRequest, valid \in BOOLEAN : start_restore(request, valid)

\* a status lookup that answers from the newest progress made for the id,
\* active or not
get_restore_status_latest(restore_id) ==
  LET made == {o \in Objects : tasks[o].request.restore_id = restore_id}
  IN  IF made = {} THEN 0 ELSE CHOOSE o \in made : \A x \in made : x <= o

\* get_restore_status: self.active_restores.get(restore_id), 0 for None
get_restore_status(restore_id) ==
  IF Contains(active_restores, restore_id) THEN active_restores[restore_id] ELSE 0

GetRestoreStatus ==
  \E restore_id \in RestoreIds :
    /\ ret' = Ret("get_restore_status", restore_id, FALSE,
                  get_restore_status(restore_id) # 0, get_restore_status(restore_id), <<>>)
    /\ UNCHANGED <<active_restores, progress, restore_history, tasks, phase_hist, percent_hist,
                   work_dir, gitops_repo, auto_sync, ahead>>

\* a cancel_restore that reports True whether or not the id was active
cancel_restore_always(restore_id) ==
  /\ active_restores' =
       IF Contains(active_restores, restore_id)
       THEN RemoveActive(active_restores, restore_id) ELSE active_restores
  /\ ret' = Ret("cancel_restore", restore_id, FALSE, TRUE, 0, <<>>)

\* cancel_restore: lines 756-761
cancel_restore(restore_id) ==
  IF Contains(active_restores, restore_id)
  THEN /\ active_restores' = RemoveActive(active_restores, restore_id)
       /\ ret' = Ret("cancel_restore", restore_id, FALSE, TRUE, 0, <<>>)
  ELSE /\ active_restores' = active_restores
       /\ ret' = Ret("cancel_restore", restore_id, FALSE, FALSE, 0, <<>>)

\* a cancel_restore that also ends the tasks of the restore
CancelRestoreInterrupting ==
  \E restore_id \in RestoreIds :
    /\ cancel_restore(restore_id)
    /\ tasks' = [t \in Tasks |->
                   IF tasks[t].request.restore_id = restore_id /\ tasks[t].pc \notin Terminal
                   THEN [tasks[t] EXCEPT !.pc = Crashed] ELSE tasks[t]]
    /\ UNCHANGED <<progress, restore_history, phase_hist, percent_hist, work_dir,
                   gitops_repo, auto_sync, ahead>>

CancelRestore ==
  \E restore_id \in RestoreIds :
    /\ cancel_restore(restore_id)
    /\ UNCHANGED <<progress, restore_history, tasks, phase_hist, percent_hist, work_dir,
                   gitops_repo, auto_sync, ahead>>

\* Python's s[-limit:] for limit >= 0: s[-0:] is s[0:], the whole list
list_restore_history(h, limit) ==
  IF limit = 0 \/ limit >= Len(h) THEN h ELSE SubSeq(h, Len(h) - limit + 1, Len(h))

\* a listing that trims the history to the rows it returns
ListRestoreHistoryTrimming ==
  \E limit \in 0..MaxLimit :
    /\ ret' = Ret("list_restore_history", limit, FALSE, TRUE, 0,
                  list_restore_history(restore_history, limit))
    /\ restore_history' = list_restore_history(restore_history, limit)
    /\ UNCHANGED <<active_restores, progress, tasks, phase_hist, percent_hist,
                   work_dir, gitops_repo, auto_sync, ahead>>

ListRestoreHistory ==
  \E limit \in 0..MaxLimit :
    /\ ret' = Ret("list_restore_history", limit, FALSE, TRUE, 0,
                  list_restore_history(restore_history, limit))
    /\ UNCHANGED <<active_restores, progress, restore_history, tasks, phase_hist, percent_hist,
                   work_dir, gitops_repo, auto_sync, ahead>>

\* get_dr_capabilities: the dict it builds from the enums and the configuration
\* (of the scenarios and modes, those that restores are asked for here)
get_dr_capabilities ==
  [supported_scenarios |-> <<CLUSTER_REBUILD, NAMESPACE_RECOVERY>>,
   gitops_integration |-> [auto_sync |-> auto_sync],
   validation_options |-> [cluster_validation |-> TRUE,
                           resource_validation |-> TRUE,
                           functional_testing |-> TRUE]]

GetDrCapabilities ==
  /\ ret' = Ret("get_dr_capabilities", 0, FALSE, TRUE, 0, get_dr_capabilities)
  /\ UNCHANGED <<active_restores, progress, restore_history, tasks, phase_hist, percent_hist,
                 work_dir, gitops_repo, auto_sync, ahead>>

Next ==
  \/ StartRestore /\ UNCHANGED <<tvars, gvars, twin>>
  \/ GetRestoreStatus /\ UNCHANGED <<tvars, gvars, twin>>
  \/ CancelRestore /\ UNCHANGED <<tvars, gvars, twin>>
  \/ ListRestoreHistory /\ UNCHANGED <<tvars, gvars, twin>>
  \/ GetDrCapabilities /\ UNCHANGED <<tvars, gvars, twin>>
  \/ \E t \in Tasks : ExecuteRestore(t) /\ UNCHANGED <<tvars, gvars, twin>>
  \/ \E t \in Tasks : ValidateClusterAccess(t) /\ UNCHANGED <<tvars, gvars, twin>>
  \/ \E t \in Tasks : ValidateGitopsAccess(t) /\ UNCHANGED <<tvars, gvars, twin>>
  \/ \E t \in Tasks : ValidateRestorePermissions(t) /\ UNCHANGED <<tvars, gvars, twin>>
  \/ \E t \in Tasks : TriggerGitopsSync(t) /\ UNCHANGED <<tvars, gvars, twin>>
  \/ \E t \in Tasks : MonitorGitopsSync(t) /\ UNCHANGED <<tvars, gvars, twin>>
  \/ \E t \in Tasks : WaitForResourcesReady(t) /\ UNCHANGED <<tvars, gvars, twin>>
  \/ \E t \in Tasks : RunFunctionalTests(t) /\ UNCHANGED <<tvars, gvars, twin>>

Spec == Init /\ [][Next]_vars

\* one step of task t, whichever await it is suspended in
TaskStep(t) ==
  \/ ExecuteRestore(t)
  \/ ValidateClusterAccess(t)
  \/ ValidateGitopsAccess(t)
  \/ ValidateRestorePermissions(t)
  \/ TriggerGitopsSync(t)
  \/ MonitorGitopsSync(t)
  \/ WaitForResourcesReady(t)
  \/ RunFunctionalTests(t)

\* -------------------------------------- the transformer on its own (C19, C20)
MaxDelay == 1

\* the variables of the orchestrator
ovars ==
  <<active_restores, progress, restore_history, tasks, phase_hist, percent_hist,
    work_dir, gitops_repo, auto_sync, ahead, ret>>

\* request.target_namespaces: not given, one namespace, two namespaces
TargetNamespaces == {<<>>, <<"t1">>, <<"t1", "t2">>}

\* the fields of a RestoreRequest the transformer reads
TransformRequest(id, target_namespaces) ==
  [restore_id |-> id, backup_id |-> "b1",
   dr_scenario |-> RequestOf(id).dr_scenario,
   source_cluster |-> "source", target_cluster |-> "target",
   target_namespaces |-> target_namespaces]

\* labels and annotations a backed-up resource may carry, or not have at all
NoDict == [present |-> FALSE, d |-> EmptyDict]
Labels ==
  {NoDict,
   [present |-> TRUE, d |-> EmptyDict],
   [present |-> TRUE, d |-> [k \in {"app"} |-> Val(<<"web">>)]],
   [present |-> TRUE, d |-> [k \in {"restore.gitops.io/restore-id"} |-> Val(<<MaxIds + 1>>)]]}
Annotations ==
  {NoDict,
   [present |-> TRUE, d |-> EmptyDict],
   [present |-> TRUE, d |-> [k \in {"restore.gitops.io/restored-at"} |-> Val(<<0>>)]]}
Namespaces == {<<>>, <<"ns1">>}

\* The heap that holds one raw resource: the resource at address 1, its
\* metadata at 2, the labels at 3 and the annotations at 4 (a dict the resource
\* does not have is referred to from nowhere).
RawResource(has_metadata, labels, annotations, namespace) ==
  LET base == [k \in {"apiVersion", "kind"} |->
                 IF k = "kind" THEN Val(<<"ConfigMap">>) ELSE Val(<<"v1">>)]
      m0 == [k \in {"name"} |-> Val(<<"cm">>)]
      m1 == IF labels.present THEN DictSet(m0, "labels", Ref(3)) ELSE m0
      m2 == IF annotations.present THEN DictSet(m1, "annotations", Ref(4)) ELSE m1
      m3 == IF namespace # <<>> THEN DictSet(m2, "namespace", Val(namespace)) ELSE m2
  IN  <<IF has_metadata THEN DictSet(base, "metadata", Ref(2)) ELSE base,
        m3, labels.d, annotations.d>>

RawResources ==
  {RawResource(FALSE, NoDict, NoDict, <<>>)} \cup
  {RawResource(TRUE, l, a, n) : l \in Labels, a \in Annotations, n \in Namespaces}

TransformInit ==
  /\ Init!1 /\ Init!2 /\ Init!3 /\ Init!4 /\ Init!5 /\ Init!6
  /\ Init!7 /\ Init!8 /\ Init!9 /\ Init!10 /\ Init!11 /\ Init!14 /\ Init!15 /\ Init!16
  /\ heap \in RawResources
  /\ \E id \in RestoreIds, target_namespaces \in TargetNamespaces :
       call = [calls |-> 0, request |-> TransformRequest(id, target_namespaces),
               resource |-> 1, before |-> Deep(heap, 1),
               transformed |-> 0, first |-> EmptyDict, now |-> 1]

\* transformed = await self._apply_gitops_transformations(request, resource)
ApplyGitopsTransformations ==
  /\ call.calls = 0
  /\ LET out == apply_gitops_transformations(heap, call.request, call.resource, call.now)
     IN  /\ heap' = out.heap
         /\ call' = [call EXCEPT !.calls = 1, !.transformed = out.transformed,
                                 !.first = Deep(out.heap, out.transformed)]
  /\ UNCHANGED <<ovars, gvars, twin>>

\* the same request applied to the manifest the first call returned, after
\* some time has passed or none
ApplyAgain ==
  /\ call.calls = 1
  /\ \E delay \in 0..MaxDelay :
       LET out == apply_gitops_transformations(heap, call.request, call.transformed,
                                               call.now + delay)
       IN  /\ heap' = out.heap
           /\ call' = [call EXCEPT !.calls = 2, !.transformed = out.transformed,
                                   !.now = call.now + delay]
  /\ UNCHANGED <<ovars, gvars, twin>>

TransformNext == ApplyGitopsTransformations \/ ApplyAgain

TransformSpec == TransformInit /\ [][TransformNext]_vars

\* ------------------------------ the backup-completion trigger on its own (C30)
\* Python exceptions: the class (what an except clause selects on) and str(e)
Exc(class, msg) == [class |-> class, msg |-> msg]
NoExc == Exc("none", <<>>)

\* the classes an "except Exception" clause catches, of those that occur here
ExceptionClasses == {"RuntimeError", "TimeoutExpired", "CalledProcessError", "OSError"}

MsgBinaryNotFound == <<"GitOps binary not found">>
MsgTimedOut(seconds) == <<"GitOps generation timed out after", seconds, "seconds">>
MsgExitCode(returncode, stderr) ==
  <<"GitOps generation failed with exit code", returncode, stderr>>

\* what the generator process may do once subprocess.run has started it: end
\* with an exit code, outlive the timeout, or not start at all (OSError)
ProcessOutcomes ==
  {[kind |-> "exit", returncode |-> rc, stdout |-> <<"generated">>, stderr |-> err] :
     rc \in {0, 1}, err \in {<<>>, <<"stderr text">>}}
  \cup {[kind |-> k, returncode |-> 0, stdout |-> <<>>, stderr |-> <<>>] :
          k \in {"timeout", "oserror"}}

\* the fields of a BackupCompletionEvent the handler reads
Events ==
  {[backup_id |-> b, cluster_name |-> "c1", success |-> ok, resources_count |-> n] :
     b \in {"b1", "b2"}, ok \in BOOLEAN, n \in {0, 20}}
NoEvent == [backup_id |-> "none", cluster_name |-> "none", success |-> FALSE,
            resources_count |-> 0]

GitOpsTriggerResult(success, method, output, error, metadata) ==
  [success |-> success, method |-> method, output |-> output, error |-> error,
   metadata |-> metadata]
NoResult == GitOpsTriggerResult(FALSE, "none", <<>>, <<>>, <<>>)

\* the command line _trigger_gitops_generation builds
Command(gitops_binary, config_path, level) ==
  gitops_binary
  \o (IF config_path # None THEN <<"--config">> \o config_path ELSE <<>>)
  \o (IF level \in {"debug", "trace"} THEN <<"--verbose">> ELSE <<>>)

\* subprocess.run(cmd, ..., timeout=..., check=True): the exception it raises
\* and the output _trigger_gitops_generation makes of what it returns
subprocess_run(outcome) ==
  CASE outcome.kind = "timeout" -> [exc |-> Exc("TimeoutExpired", <<"timed out">>), output |-> <<>>]
    [] outcome.kind = "oserror" -> [exc |-> Exc("OSError", <<"Exec format error">>), output |-> <<>>]
    [] outcome.kind = "exit" /\ outcome.returncode # 0 ->
         [exc |-> Exc("CalledProcessError", <<"non-zero exit status">>), output |-> <<>>]
    [] OTHER ->
         [exc |-> NoExc,
          output |-> IF outcome.stderr # <<>>
                     THEN outcome.stdout \o <<"Stderr">> \o outcome.stderr
                     ELSE outcome.stdout]

\* _trigger_gitops_generation from the return of subprocess.run on: the two
\* except clauses turn a timeout and a non-zero exit into a RuntimeError
trigger_gitops_generation(outcome, seconds) ==
  LET run == subprocess_run(outcome)
  IN  CASE run.exc.class = "TimeoutExpired" ->
             [exc |-> Exc("RuntimeError", MsgTimedOut(seconds)), output |-> <<>>]
        [] run.exc.class = "CalledProcessError" ->
             [exc |-> Exc("RuntimeError", MsgExitCode(outcome.returncode, outcome.stderr)),
              output |-> <<>>]
        [] OTHER -> run

\* a handler whose except clause selects RuntimeError only
handle_backup_completion_runtime_only(event, generation) ==
  IF generation.exc = NoExc
  THEN [raised |-> FALSE,
        result |-> GitOpsTriggerResult(TRUE, "direct_invocation", generation.output, <<>>,
                     [backup_id |-> event.backup_id, cluster |-> event.cluster_name,
                      resources_processed |-> event.resources_count])]
  ELSE IF generation.exc.class = "RuntimeError"
  THEN [raised |-> FALSE,
        result |-> GitOpsTriggerResult(FALSE, "direct_invocation", <<>>,
                                       generation.exc.msg, <<>>)]
  ELSE [raised |-> TRUE, result |-> NoResult]

\* handle_backup_completion, the try statement (lines 125-161), from what
\* _trigger_gitops_generation returned or raised
handle_backup_completion(event, generation) ==
  IF generation.exc = NoExc
  THEN [raised |-> FALSE,
        result |-> GitOpsTriggerResult(TRUE, "direct_invocation", generation.output, <<>>,
                     [backup_id |-> event.backup_id, cluster |-> event.cluster_name,
                      resources_processed |-> event.resources_count])]
  ELSE IF generation.exc.class \in ExceptionClasses
  THEN [raised |-> FALSE,
        result |-> GitOpsTriggerResult(FALSE, "direct_invocation", <<>>,
                                       generation.exc.msg, <<>>)]
  ELSE [raised |-> TRUE, result |-> NoResult]

\* the handler is made with a loaded configuration; whether a generator binary
\* and a configuration file are found is a fact of the machine it runs on
TriggerInit ==
  /\ Init!1 /\ Init!2 /\ Init!3 /\ Init!4 /\ Init!5 /\ Init!6
  /\ Init!7 /\ Init!8 /\ Init!9 /\ Init!10 /\ Init!11 /\ Init!12 /\ Init!13 /\ Init!15 /\ Init!16
  /\ \E enabled \in BOOLEAN, level \in {"info", "debug"},
        gitops_binary \in {None, <<"/usr/bin/minio-to-git">>},
        config_path \in {None, <<"shared-config.yaml">>} :
       trigger = [calls |-> 0, pc |-> "idle",
                  enabled |-> enabled, level |-> level,
                  gitops_binary |-> gitops_binary, config_path |-> config_path,
                  event |-> NoEvent, runs |-> <<>>, outcomes |-> <<>>,
                  raised |-> FALSE, result |-> NoResult]

\* a handler that does not look at pipeline.automation.enabled
HandleBackupCompletionAlways ==
  /\ trigger.pc \in {"idle", "returned"}
  /\ trigger.calls < MaxEvents
  /\ \E event \in Events :
       LET t0 == [trigger EXCEPT !.calls = @ + 1, !.event = event, !.runs = <<>>,
                                 !.outcomes = <<>>, !.raised = FALSE, !.result = NoResult]
           not_found == [exc |-> Exc("RuntimeError", MsgBinaryNotFound), output |-> <<>>]
       IN  trigger' =
             IF t0.gitops_binary = None
             THEN [t0 EXCEPT !.pc = "returned",
                     !.raised = handle_backup_completion(event, not_found).raised,
                     !.result = handle_backup_completion(event, not_found).result]
             ELSE [t0 EXCEPT !.pc = "subprocess_run",
                     !.runs = Append(@, Command(t0.gitops_binary, t0.config_path, t0.level))]
  /\ UNCHANGED <<ovars, tvars, monitor, twin>>

\* handle_backup_completion(event) up to the call of subprocess.run, or to its
\* return when auto-triggering is disabled or no generator binary is found
HandleBackupCompletion ==
  /\ trigger.pc \in {"idle", "returned"}
  /\ trigger.calls < MaxEvents
  /\ \E event \in Events :
       LET t0 == [trigger EXCEPT !.calls = @ + 1, !.event = event, !.runs = <<>>,
                                 !.outcomes = <<>>, !.raised = FALSE, !.result = NoResult]
           not_found == [exc |-> Exc("RuntimeError", MsgBinaryNotFound), output |-> <<>>]
       IN  trigger' =
             IF ~t0.enabled
             THEN [t0 EXCEPT !.pc = "returned",
                     !.result = GitOpsTriggerResult(TRUE, "disabled",
                                  <<"Auto-triggering is disabled in configuration">>,
                                  <<>>, <<>>)]
             ELSE IF t0.gitops_binary = None
             THEN [t0 EXCEPT !.pc = "returned",
                     !.raised = handle_backup_completion(event, not_found).raised,
                     !.result = handle_backup_completion(event, not_found).result]
             ELSE [t0 EXCEPT !.pc = "subprocess_run",
                     !.runs = Append(@, Command(t0.gitops_binary, t0.config_path, t0.level))]
  /\ UNCHANGED <<ovars, tvars, monitor, twin>>

\* from the return of subprocess.run to the return of handle_backup_completion
GeneratorEnds ==
  /\ trigger.pc = "subprocess_run"
  /\ \E outcome \in ProcessOutcomes :
       LET generation == trigger_gitops_generation(outcome, max_wait_time)
           handled == handle_backup_completion(trigger.event, generation)
       IN  trigger' = [trigger EXCEPT !.pc = "returned",
                                      !.outcomes = Append(@, outcome),
                                      !.raised = handled.raised,
                                      !.result = handled.result]
  /\ UNCHANGED <<ovars, tvars, monitor, twin>>

TriggerNext == HandleBackupCompletion \/ GeneratorEnds

TriggerSpec == TriggerInit /\ [][TriggerNext]_vars

\* -------------------------------------- monitor_trigger_files on its own (C32)
\* names of trigger files (backup-complete-<cluster>-<timestamp>.json): a
\* name is written once
FileNames == {"f1", "f2", "f3"}

\* how the handling of one file may end: handle_backup_completion returned
\* success, returned failure, or open, json.load or from_dict raised
Handlings == {"success", "failed", "raised"}

\* the orders list(Path(trigger_dir).glob(...)) may return a set of files in
Orders(S) ==
  {q \in [1..Cardinality(S) -> S] : \A i, j \in 1..Cardinality(S) : i # j => q[i] # q[j]}

\* monitor_trigger_files up to the while loop; files may be there already
MonitorInit ==
  /\ Init!1 /\ Init!2 /\ Init!3 /\ Init!4 /\ Init!5 /\ Init!6 /\ Init!7
  /\ Init!8 /\ Init!9 /\ Init!10 /\ Init!11 /\ Init!12 /\ Init!13 /\ Init!14 /\ Init!16
  /\ \E files \in SUBSET FileNames :
       monitor = [pc |-> "scan", scans |-> 0, files |-> files, written |-> files,
                  processed_files |-> {}, trigger_files |-> <<>>,
                  first |-> [f \in FileNames |-> 0],
                  handled |-> [f \in FileNames |-> 0],
                  failures |-> [f \in FileNames |-> 0],
                  last |-> [f \in FileNames |-> "none"]]

\* the backup side writes a trigger file
WriteTriggerFile ==
  /\ monitor.scans <= MaxScans
  /\ \E f \in FileNames \ monitor.written :
       monitor' = [monitor EXCEPT !.files = @ \cup {f}, !.written = @ \cup {f}]
  /\ UNCHANGED <<ovars, tvars, trigger, twin>>

\* line 282: trigger_files = list(Path(trigger_dir).glob(...))
ScanTriggerFiles ==
  /\ monitor.pc = "scan"
  /\ monitor.scans < MaxScans
  /\ \E trigger_files \in Orders(monitor.files) :
       monitor' = [monitor EXCEPT
                     !.pc = "for", !.scans = @ + 1, !.trigger_files = trigger_files,
                     !.first = [f \in FileNames |->
                                  IF f \in monitor.files /\ @[f] = 0
                                  THEN monitor.scans + 1 ELSE @[f]]]
  /\ UNCHANGED <<ovars, tvars, trigger, twin>>

\* a loop body that lets the exception of one file end the scan
process_trigger_file_stopping(m, f, handling) ==
  IF f \in m.processed_files THEN [m EXCEPT !.trigger_files = Tail(@)]
  ELSE LET m1 == [m EXCEPT !.trigger_files = IF handling = "raised" THEN <<>> ELSE Tail(@),
                           !.handled[f] = @ + 1, !.last[f] = handling]
       IN  IF handling = "success"
           THEN [m1 EXCEPT !.processed_files = @ \cup {f}, !.files = @ \ {f}]
           ELSE [m1 EXCEPT !.failures[f] = @ + 1]

\* lines 284-308: the body of the for loop for the file f
process_trigger_file(m, f, handling) ==
  IF f \in m.processed_files THEN [m EXCEPT !.trigger_files = Tail(@)]
  ELSE LET m1 == [m EXCEPT !.trigger_files = Tail(@),
                           !.handled[f] = @ + 1, !.last[f] = handling]
       IN  IF handling = "success"
           THEN [m1 EXCEPT !.processed_files = @ \cup {f}, !.files = @ \ {f}]
           ELSE [m1 EXCEPT !.failures[f] = @ + 1]

\* one turn of the for loop
ProcessTriggerFile ==
  /\ monitor.pc = "for"
  /\ monitor.trigger_files # <<>>
  /\ \E handling \in Handlings :
       monitor' = process_trigger_file(monitor, Head(monitor.trigger_files), handling)
  /\ UNCHANGED <<ovars, tvars, trigger, twin>>

\* line 311: the for loop is over, time.sleep(poll_interval) begins
EndScan ==
  /\ monitor.pc = "for"
  /\ monitor.trigger_files = <<>>
  /\ monitor' = [monitor EXCEPT !.pc = "sleep"]
  /\ UNCHANGED <<ovars, tvars, trigger, twin>>

\* time.sleep returns
WakeUp ==
  /\ monitor.pc = "sleep"
  /\ monitor' = [monitor EXCEPT !.pc = "scan"]
  /\ UNCHANGED <<ovars, tvars, trigger, twin>>

\* lines 313-315: KeyboardInterrupt, at any point of the loop
KeyboardInterrupt ==
  /\ monitor.pc \in {"scan", "for", "sleep"}
  /\ monitor' = [monitor EXCEPT !.pc = "stopped", !.trigger_files = <<>>]
  /\ UNCHANGED <<ovars, tvars, trigger, twin>>

MonitorNext ==
  \/ WriteTriggerFile
  \/ ScanTriggerFiles
  \/ ProcessTriggerFile
  \/ EndScan
  \/ WakeUp
  \/ KeyboardInterrupt

MonitorSpec == MonitorInit /\ [][MonitorNext]_vars

\* ----------------------------------- one restore with and without dry_run (C39)
\* Two orchestrators are given the same request, the second with dry_run set,
\* and the external systems answer both alike.  twin.a and twin.b are their
\* tasks; each orchestrator runs this one restore only.
TwinTask(request) ==
  [request |-> request, pc |-> Scheduled, p |-> NewRestoreProgress, i |-> 0,
   entered |-> <<>>, effects |-> <<>>, exc |-> None, health_reports |-> <<>>,
   work_dir |-> TRUE, gitops_repo |-> 0]

\* what a step of task u starts from
TwinRun(u) ==
  [p |-> u.p, exc |-> None, phases |-> <<>>, percents |-> <<>>, effects |-> <<>>,
   cleanup |-> FALSE, health_reports |-> <<>>,
   work_dir |-> u.work_dir, gitops_repo |-> u.gitops_repo]

\* the end of one step of task u: the except clause when it raised, lines
\* 215-231 when the last phase has ended
TwinSettle(u, r, nextpc, i) ==
  LET failed == r.exc # None
      completes == ~failed /\ nextpc = COMPLETED
  IN  [u EXCEPT !.pc = IF failed THEN FAILED ELSE nextpc,
                !.p = IF failed THEN ExceptHandler(r.p, r.exc)
                      ELSE IF completes THEN CompleteSuccessfully(r.p)
                      ELSE r.p,
                !.i = i,
                !.entered = @ \o r.phases \o (IF failed THEN <<FAILED>>
                                              ELSE IF completes THEN <<COMPLETED>> ELSE <<>>),
                !.effects = @ \o r.effects,
                !.exc = r.exc,
                !.health_reports = @ \o r.health_reports,
                !.work_dir = r.work_dir,
                !.gitops_repo = r.gitops_repo]

\* the steps of _execute_restore, each from one suspension point to the next;
\* a task that is not at the step's suspension point is left as it is
twin_execute_restore(u, backup_metadata) ==
  IF u.pc # Scheduled THEN u
  ELSE TwinSettle(u, phase_validation_enter(phase_planning(TwinRun(u), u.request, backup_metadata)),
                  "validate_cluster_access", 0)

twin_validate_cluster_access(u, ok) ==
  IF u.pc # "validate_cluster_access" THEN u
  ELSE TwinSettle(u, RaiseIf(TwinRun(u), ~ok, MsgClusterAccess(u.request.target_cluster)),
                  "validate_gitops_access", 0)

twin_validate_gitops_access(u, ok) ==
  IF u.pc # "validate_gitops_access" THEN u
  ELSE TwinSettle(u, RaiseIf(TwinRun(u), ~ok, MsgGitopsAccess),
                  "validate_restore_permissions", 0)

twin_validate_restore_permissions(u, permitted, found, clone_ok, manifests_ok, commit_ok) ==
  IF u.pc # "validate_restore_permissions" THEN u
  ELSE LET conflicts == check_restore_conflicts(u.request, found)
           r1 == phase_validation_exit(TwinRun(u), u.request, permitted, conflicts)
           r2 == phase_preparation(r1, 1, clone_ok, manifests_ok)
           r3 == phase_gitops_sync_enter(r2, commit_ok)
       IN  TwinSettle(u, r3,
                      IF auto_sync THEN "trigger_gitops_sync" ELSE "monitor_gitops_sync", 0)

twin_trigger_gitops_sync(u, ok) ==
  IF u.pc # "trigger_gitops_sync" THEN u
  ELSE TwinSettle(u, RaiseIf(TwinRun(u), ~ok, MsgRaised("trigger_gitops_sync")),
                  "monitor_gitops_sync", 0)

twin_monitor_gitops_sync(u) ==
  IF u.pc # "monitor_gitops_sync" THEN u
  ELSE LET r1 == monitor_gitops_sync_step(TwinRun(u), u.i)
       IN  IF u.i + 1 < sync_duration
           THEN TwinSettle(u, r1, "monitor_gitops_sync", u.i + 1)
           ELSE TwinSettle(u, phase_verification_enter(phase_gitops_sync_exit(r1)),
                           "wait_for_resources_ready", 0)

twin_finish(u, r, notified) ==
  TwinSettle(u, phase_cleanup(phase_verification_exit(r), notified), COMPLETED, 0)

twin_wait_for_resources_ready(u, ready, checked, health_report, notified) ==
  IF u.pc # "wait_for_resources_ready" THEN u
  ELSE LET r0 == RaiseIf(TwinRun(u), ~ready, MsgRaised("wait_for_resources_ready"))
           r1 == validate_resource_health(r0, checked, health_report)
       IN  IF r1.exc = None /\ u.request.functional_tests
           THEN TwinSettle(u, r1, "run_functional_tests", 0)
           ELSE twin_finish(u, r1, notified)

twin_run_functional_tests(u, passed, notified) ==
  IF u.pc # "run_functional_tests" THEN u
  ELSE twin_finish(u, RaiseIf(TwinRun(u), ~passed, MsgRaised("run_functional_tests")),
                   notified)

\* the restore has been started on both orchestrators
TwinInit ==
  /\ Init!1 /\ Init!2 /\ Init!3 /\ Init!4 /\ Init!5 /\ Init!6 /\ Init!7 /\ Init!8
  /\ Init!9 /\ Init!10 /\ Init!11 /\ Init!12 /\ Init!13 /\ Init!14 /\ Init!15
  /\ \E request \in RestoreRequest :
       twin = [id |-> request.restore_id,
               a |-> TwinTask(request),
               b |-> TwinTask([request EXCEPT !.dry_run = TRUE])]

TwinAt(pc) == twin.id # 0 /\ pc \in {twin.a.pc, twin.b.pc}

TwinExecuteRestore ==
  /\ TwinAt(Scheduled)
  /\ \E backup_metadata \in BackupMetadata \cup {NoMetadata} :
       twin' = [twin EXCEPT !.a = twin_execute_restore(@, backup_metadata),
                            !.b = twin_execute_restore(@, backup_metadata)]

TwinValidateClusterAccess ==
  /\ TwinAt("validate_cluster_access")
  /\ \E ok \in BOOLEAN :
       twin' = [twin EXCEPT !.a = twin_validate_cluster_access(@, ok),
                            !.b = twin_validate_cluster_access(@, ok)]

TwinValidateGitopsAccess ==
  /\ TwinAt("validate_gitops_access")
  /\ \E ok \in BOOLEAN :
       twin' = [twin EXCEPT !.a = twin_validate_gitops_access(@, ok),
                            !.b = twin_validate_gitops_access(@, ok)]

TwinValidateRestorePermissions ==
  /\ TwinAt("validate_restore_permissions")
  /\ \E permitted, clone_ok, manifests_ok, commit_ok \in BOOLEAN, found \in Conflicts :
       twin' = [twin EXCEPT
         !.a = twin_validate_restore_permissions(@, permitted, found, clone_ok,
                                                 manifests_ok, commit_ok),
         !.b = twin_validate_restore_permissions(@, permitted, found, clone_ok,
                                                 manifests_ok, commit_ok)]

TwinTriggerGitopsSync ==
  /\ TwinAt("trigger_gitops_sync")
  /\ \E ok \in BOOLEAN :
       twin' = [twin EXCEPT !.a = twin_trigger_gitops_sync(@, ok),
                            !.b = twin_trigger_gitops_sync(@, ok)]

TwinMonitorGitopsSync ==
  /\ TwinAt("monitor_gitops_sync")
  /\ twin' = [twin EXCEPT !.a = twin_monitor_gitops_sync(@),
                          !.b = twin_monitor_gitops_sync(@)]

TwinWaitForResourcesReady ==
  /\ TwinAt("wait_for_resources_ready")
  /\ \E ready, checked, notified \in BOOLEAN, health_report \in HealthReports :
       twin' = [twin EXCEPT
         !.a = twin_wait_for_resources_ready(@, ready, checked, health_report, notified),
         !.b = twin_wait_for_resources_ready(@, ready, checked, health_report, notified)]

TwinRunFunctionalTests ==
  /\ TwinAt("run_functional_tests")
  /\ \E passed, notified \in BOOLEAN :
       twin' = [twin EXCEPT !.a = twin_run_functional_tests(@, passed, notified),
                            !.b = twin_run_functional_tests(@, passed, notified)]

TwinNext ==
  \/ TwinExecuteRestore /\ UNCHANGED <<ovars, tvars, gvars>>
  \/ TwinValidateClusterAccess /\ UNCHANGED <<ovars, tvars, gvars>>
  \/ TwinValidateGitopsAccess /\ UNCHANGED <<ovars, tvars, gvars>>
  \/ TwinValidateRestorePermissions /\ UNCHANGED <<ovars, tvars, gvars>>
  \/ TwinTriggerGitopsSync /\ UNCHANGED <<ovars, tvars, gvars>>
  \/ TwinMonitorGitopsSync /\ UNCHANGED <<ovars, tvars, gvars>>
  \/ TwinWaitForResourcesReady /\ UNCHANGED <<ovars, tvars, gvars>>
  \/ TwinRunFunctionalTests /\ UNCHANGED <<ovars, tvars, gvars>>

TwinSpec == TwinInit /\ [][TwinNext]_vars
\* ===================================================================== claims
PhaseOrder == <<PLANNING, VALIDATION, PREPARATION, GITOPS_SYNC, VERIFICATION, CLEANUP, COMPLETED>>

IsPrefix(a, b) == Len(a) <= Len(b) /\ SubSeq(b, 1, Len(a)) = a

NonDecreasing(h) == \A k \in 1..(Len(h) - 1) : PercentLeq(h[k], h[k + 1])

Submitted(id) == {t \in Tasks : tasks[t].request.restore_id = id}
ResultsOf(id) == {k \in 1..Len(restore_history) : restore_history[k].restore_id = id}

\* C1: for a restore that ran to Completed, the values that progress.phase took
\* from the start to the end of its _execute_restore are Planning, Validation,
\* Preparation, GitOpsSync, Verification, Cleanup, Completed, in that order.
C1_PhasesInOrder ==
  \A t \in Tasks :
    tasks[t].pc = COMPLETED =>
      SubSeq(phase_hist[tasks[t].ref], tasks[t].hist0, tasks[t].hist1) = PhaseOrder

\* C2: the values percent_complete takes on a RestoreProgress never decrease,
\* and percent_complete is 100 only while phase is Completed.
C2_PercentMonotone ==
  \A o \in Objects :
    /\ NonDecreasing(percent_hist[o])
    /\ PercentIs(progress[o].percent_complete, 100) => progress[o].phase = COMPLETED

\* C3: when start_restore(request) has returned, active_restores[restore_id] is
\* a progress with phase Planning, percent 0, steps_completed 0, total_steps 7,
\* the value returned is the restore_id, and the task made for the restore is
\* scheduled and has entered no phase.
C3_StartRestoreRegisters ==
  (ret.op = "start_restore" /\ ~ret.raised) =>
    /\ tasks # <<>>
    /\ LET t == Len(tasks)
           id == tasks[t].request.restore_id
       IN  /\ ret.value = id
           /\ get_restore_status(id) = Len(progress)
           /\ progress[get_restore_status(id)].phase = PLANNING
           /\ PercentIs(progress[get_restore_status(id)].percent_complete, 0)
           /\ progress[get_restore_status(id)].steps_completed = 0
           /\ progress[get_restore_status(id)].total_steps = 7
           /\ tasks[t].pc = Scheduled
           /\ tasks[t].entered = <<>>
           /\ phase_hist[Len(progress)] = <<PLANNING>>

C3_Witness ==
  /\ ret.op = "start_restore"
  /\ ~ret.raised
  /\ Len(tasks) = 2
  /\ tasks[1].pc = "validate_gitops_access"

\* C4: a start_restore whose validate_request raises changes neither
\* active_restores nor the progress objects nor the tasks nor restore_history,
\* and start_restore raises exactly when validate_request did.
C4_RejectedStartChangesNothing ==
  [][ret'.op = "start_restore" =>
       /\ ret'.raised <=> ~ret'.found
       /\ ret'.raised =>
            UNCHANGED <<active_restores, progress, tasks, restore_history>>]_vars

C4_Witness ==
  /\ ret.op = "start_restore"
  /\ ret.raised
  /\ Len(tasks) = 1
  /\ DOMAIN active_restores # {}

\* C5: the step in which a phase of a restore raises sets the restore's
\* progress.phase to Failed, appends the message of the exception to
\* progress.errors, and appends to restore_history a result with the
\* restore's id, success false, phase Failed and that message as
\* error_summary; the phases the task entered are a prefix of the normal
\* sequence, and the task enters nothing afterwards.
C5_FailureHandling ==
  [][\A t \in Tasks :
       /\ (tasks[t].pc \notin Terminal /\ tasks'[t].pc = FAILED) =>
            LET o == tasks'[t].ref
                msg == tasks'[t].exc
                result == restore_history'[Len(restore_history')]
                normal == SubSeq(tasks'[t].entered, 1, Len(tasks'[t].entered) - 1)
            IN  /\ msg # None
                /\ progress'[o].phase = FAILED
                /\ progress'[o].errors = Append(progress[o].errors, msg)
                /\ restore_history' = Append(restore_history, result)
                /\ result.restore_id = tasks[t].request.restore_id
                /\ result.success = FALSE
                /\ result.phase = FAILED
                /\ result.error_summary = msg
                /\ tasks'[t].entered[Len(tasks'[t].entered)] = FAILED
                /\ IsPrefix(normal, PhaseOrder)
                /\ COMPLETED \notin {normal[k] : k \in 1..Len(normal)}
       /\ tasks[t].pc = FAILED => tasks'[t] = tasks[t]]_vars

C5_Witness ==
  /\ Len(tasks) = 2
  /\ tasks[1].pc = FAILED
  /\ tasks[1].entered = <<PLANNING, FAILED>>
  /\ tasks[2].pc = FAILED
  /\ tasks[2].entered =
       <<PLANNING, VALIDATION, PREPARATION, GITOPS_SYNC, VERIFICATION, CLEANUP, FAILED>>

\* C6: a restore that has failed had its Cleanup step (_phase_cleanup)
\* attempted before its result was recorded.
C6_CleanupAfterFailure ==
  \A t \in Tasks : tasks[t].pc = FAILED => tasks[t].cleanup_attempted

\* C7: once every task of the restores submitted with an id has ended,
\* restore_history holds exactly one result with that id per restore submitted.
C7_ExactlyOneResult ==
  \A id \in RestoreIds :
    (\A t \in Submitted(id) : tasks[t].pc \in Terminal) =>
      Cardinality(ResultsOf(id)) = Cardinality(Submitted(id))

\* C8: every step leaves restore_history as it was or with results added at
\* its end: the old history is a prefix of the new one.
C8_HistoryAppendOnly == [][IsPrefix(restore_history, restore_history')]_vars

C8_Witness ==
  /\ Len(restore_history) = 2
  /\ restore_history[1].success
  /\ ~restore_history[2].success

\* C9: get_restore_status(id) is None for an id no start_restore was given, and
\* the progress it returns otherwise belongs to no restore that has terminated
\* (the tasks bound to it and the task made with it are not terminal): a restore
\* that reached Completed or Failed is no longer answered.
C9_StatusAbsent ==
  \A id \in RestoreIds :
    /\ Submitted(id) = {} => get_restore_status(id) = 0
    /\ get_restore_status(id) # 0 =>
         \A t \in Tasks :
           (t = get_restore_status(id) \/ tasks[t].ref = get_restore_status(id)) =>
             tasks[t].pc \notin Terminal

C9_Witness ==
  /\ ret.op = "get_restore_status"
  /\ ret.id = 1
  /\ ret.value = 0
  /\ Len(tasks) = 1
  /\ tasks[1].request.restore_id = 1
  /\ tasks[1].pc = COMPLETED
  /\ Len(restore_history) = 1

\* C10: no entry of active_restores holds a progress whose phase is Completed
\* or Failed, in any state in which another task or caller can run.
C10_NoTerminalEntry ==
  \A id \in DOMAIN active_restores :
    progress[active_restores[id]].phase \notin {COMPLETED, FAILED}

C10_Witness ==
  /\ Len(tasks) = 2
  /\ tasks[1].pc = COMPLETED
  /\ progress[tasks[1].ref].phase = COMPLETED
  /\ tasks[2].pc = "monitor_gitops_sync"
  /\ DOMAIN active_restores = {tasks[2].request.restore_id}


\* C11: a cancel_restore(id) for an id not in active_restores returns False
\* and changes nothing; for an id in active_restores it returns True and
\* removes that entry and nothing else, and get_restore_status(id) is then None.
C11_CancelRestore ==
  [][\A id \in RestoreIds :
       (ret'.op = "cancel_restore" /\ ret'.id = id) =>
         /\ ~ret'.raised
         /\ UNCHANGED <<progress, restore_history, tasks, work_dir, gitops_repo>>
         /\ IF Contains(active_restores, id)
            THEN /\ ret'.found
                 /\ active_restores' = RemoveActive(active_restores, id)
                 /\ get_restore_status(id)' = 0
            ELSE /\ ~ret'.found
                 /\ UNCHANGED active_restores]_vars

C11_Witness ==
  /\ ret.op = "cancel_restore"
  /\ ret.found
  /\ ret.id = 1
  /\ get_restore_status(1) = 0
  /\ Len(tasks) = 2
  /\ tasks[1].request.restore_id = 1
  /\ tasks[1].pc = "monitor_gitops_sync"
  /\ get_restore_status(2) = 2


\* how far along _execute_restore a task is
PcRank(task) ==
  CASE task.pc = Scheduled -> 0
    [] task.pc = "validate_cluster_access" -> 1
    [] task.pc = "validate_gitops_access" -> 2
    [] task.pc = "validate_restore_permissions" -> 3
    [] task.pc = "trigger_gitops_sync" -> 4
    [] task.pc = "monitor_gitops_sync" -> 5 + task.i
    [] task.pc = "wait_for_resources_ready" -> 5 + sync_duration
    [] task.pc = "run_functional_tests" -> 6 + sync_duration
    [] OTHER -> 7 + sync_duration

\* C12: a cancel_restore that finds the id changes active_restores only (no
\* task, progress object, result or working tree).  A task that is part-way
\* when its restore is cancelled is not interrupted: its next step can be
\* taken (at once, or once the task that waits for its first step has run),
\* every step takes a task further along its phases, and when it has reached
\* Completed or Failed its result is in restore_history; a task that reached
\* Completed has cloned, committed and pushed.
C12_CancelIsBookkeeping ==
  /\ [][(ret'.op = "cancel_restore" /\ ret'.found) =>
          UNCHANGED <<progress, restore_history, tasks, phase_hist, percent_hist,
                      work_dir, gitops_repo, auto_sync>>]_vars
  /\ [][\A t \in Tasks : tasks'[t] # tasks[t] => PcRank(tasks'[t]) > PcRank(tasks[t])]_vars
  /\ [](\A t \in Tasks :
          /\ (/\ tasks[t].pc \notin Terminal \cup {Scheduled}
              /\ ret.op = "cancel_restore" /\ ret.found
              /\ ret.id = tasks[t].request.restore_id) =>
               \/ ENABLED TaskStep(t)
               \/ \E u \in Tasks : tasks[u].pc = Scheduled /\ ENABLED TaskStep(u)
          /\ tasks[t].pc \in {COMPLETED, FAILED} =>
               \E k \in ResultsOf(tasks[t].request.restore_id) :
                 restore_history[k].success = (tasks[t].pc = COMPLETED)
          /\ tasks[t].pc = COMPLETED =>
               {"clone", "commit_push"} \subseteq
                 {tasks[t].effects[k] : k \in 1..Len(tasks[t].effects)})

C12_Witness ==
  /\ Len(tasks) = 1
  /\ ~Contains(active_restores, tasks[1].request.restore_id)
  /\ tasks[1].pc = "wait_for_resources_ready"
  /\ tasks[1].effects = <<"clone", "commit_push">>
  /\ restore_history = <<>>


\* the restores submitted so far all have different restore_ids
DistinctIds ==
  \A t, u \in Tasks : t # u => tasks[t].request.restore_id # tasks[u].request.restore_id

\* C13: while the restores submitted have distinct restore_ids, a step changes
\* a RestoreProgress (phase, counters, errors, warnings) only if it is a step
\* of the task of the restore the progress was registered for, and each task
\* is bound to the progress made for its own restore; when two such restores
\* have both reached Completed or Failed, restore_history holds exactly two
\* results, one with each restore_id.
C13_DistinctIdsIsolated ==
  /\ [][DistinctIds' =>
          \A o \in Objects :
            progress'[o] # progress[o] =>
              /\ tasks'[o] # tasks[o]
              /\ \A u \in Tasks \ {o} : tasks'[u] = tasks[u]]_vars
  /\ [](DistinctIds =>
          /\ \A t \in Tasks : tasks[t].ref \in {0, t}
          /\ (Len(tasks) = 2 /\ \A t \in Tasks : tasks[t].pc \in {COMPLETED, FAILED}) =>
               /\ Len(restore_history) = 2
               /\ \A t \in Tasks :
                    Cardinality(ResultsOf(tasks[t].request.restore_id)) = 1)

C13_Witness ==
  /\ DistinctIds
  /\ Len(tasks) = 2
  /\ tasks[1].pc = COMPLETED
  /\ tasks[2].pc = FAILED
  /\ tasks[2].entered = <<PLANNING, VALIDATION, FAILED>>
  /\ Len(restore_history) = 2
  /\ restore_history[1].restore_id = tasks[2].request.restore_id
  /\ progress[1].errors = <<>>
  /\ progress[2].errors # <<>>


\* C14: the working tree a restore clones into is its own: no restore fails
\* in Preparation because the clone of another restore is in the directory it
\* clones into, and the clone in the working directory belongs to the
\* restore that made it and is still running (restores of distinct ids).
C14_CloneScopedToRestore ==
  DistinctIds =>
    /\ \A t \in Tasks : tasks[t].exc # MsgDestinationExists
    /\ \A t \in Tasks :
         (/\ tasks[t].pc \notin Terminal
          /\ "clone" \in {tasks[t].effects[k] : k \in 1..Len(tasks[t].effects)})
           => gitops_repo = t


\* the n most recent results of h, the most recent one last
MostRecent(h, n) == SubSeq(h, Len(h) - n + 1, Len(h))

\* C15: list_restore_history(limit), for limit >= 0, returns the
\* min(limit, length of the history) most recent results, in the order they
\* were appended.
C15_ListMostRecent ==
  ret.op = "list_restore_history" =>
    ret.rows = MostRecent(restore_history,
                          IF ret.id <= Len(restore_history) THEN ret.id
                          ELSE Len(restore_history))


\* C16: a restore whose backup metadata cannot be loaded fails in Planning
\* (the only phase it enters), performs no clone, commit, push or sync
\* trigger, and has a result with success false whose error_summary is the
\* message raised and names the backup_id; a restore fails in Planning in no
\* other way.
C16_UnknownBackupFailsInPlanning ==
  \A t \in Tasks :
    LET request == tasks[t].request IN
    /\ tasks[t].exc = MsgBackupNotFound(request.backup_id) =>
         /\ tasks[t].pc = FAILED
         /\ tasks[t].entered = <<PLANNING, FAILED>>
         /\ tasks[t].effects = <<>>
         /\ \E k \in ResultsOf(request.restore_id) :
              /\ ~restore_history[k].success
              /\ restore_history[k].error_summary = tasks[t].exc
              /\ \E j \in 1..Len(restore_history[k].error_summary) :
                   restore_history[k].error_summary[j] = request.backup_id
    /\ tasks[t].entered = <<PLANNING, FAILED>> =>
         tasks[t].exc = MsgBackupNotFound(request.backup_id)

C16_Witness ==
  /\ Len(tasks) = 2
  /\ tasks[1].pc = "monitor_gitops_sync"
  /\ tasks[2].pc = FAILED
  /\ tasks[2].exc = MsgBackupNotFound("b1")
  /\ Len(restore_history) = 1
  /\ gitops_repo = 1

\* the exceptions _phase_validation raises on a validator's False
ValidationErrors(request) ==
  {MsgClusterAccess(request.target_cluster), MsgGitopsAccess, MsgPermissions}

\* C17: a restore for which cluster-access, repository-access or permission
\* validation returned False fails in Validation, and no clone, commit, push
\* or sync trigger has been or is later performed for it.
C17_ValidationFailureHasNoEffect ==
  \A t \in Tasks :
    tasks[t].exc \in ValidationErrors(tasks[t].request) =>
      /\ tasks[t].pc = FAILED
      /\ tasks[t].entered = <<PLANNING, VALIDATION, FAILED>>
      /\ tasks[t].effects = <<>>
      /\ \E k \in ResultsOf(tasks[t].request.restore_id) :
           ~restore_history[k].success /\ restore_history[k].error_summary = tasks[t].exc

C17_Witness ==
  /\ Len(tasks) = 2
  /\ tasks[1].exc = MsgPermissions
  /\ tasks[2].exc = MsgClusterAccess("target")
  /\ gitops_repo = 0
  /\ Len(restore_history) = 2


\* C18: conflicts found by conflict detection are fatal unless the restore is
\* a cluster rebuild: a restore has conflict warnings on its progress only if
\* it is a cluster rebuild, and it has then gone on to Preparation (a restore
\* of another scenario failed in Validation instead).
C18_ConflictsFatalUnlessRebuild ==
  \A t \in Tasks :
    (tasks[t].ref # 0 /\ progress[tasks[t].ref].warnings # <<>>) =>
      /\ tasks[t].request.dr_scenario = CLUSTER_REBUILD
      /\ PREPARATION \in {tasks[t].entered[k] : k \in 1..Len(tasks[t].entered)}


\* C19: after _apply_gitops_transformations has been called on a raw
\* resource, the resource with its metadata, labels, annotations and namespace
\* is equal to what it was before the call.
C19_InputNotMutated ==
  call.calls >= 1 => Deep(heap, call.resource) = call.before

\* a manifest without its restored-at annotation
WithoutRestoredAt(manifest) ==
  [manifest EXCEPT !["metadata"].val["annotations"].val =
     [k \in DOMAIN @ \ {"restore.gitops.io/restored-at"} |-> @[k]]]

\* C20: the manifest returned by a second transformation, of the output of
\* the first with the same request, is equal to the manifest the first one
\* returned, apart from the restored-at annotation.
C20_TransformIdempotent ==
  call.calls = 2 =>
    WithoutRestoredAt(Deep(heap, call.transformed)) = WithoutRestoredAt(call.first)

C20_Witness ==
  /\ call.calls = 2
  /\ call.now = 2
  /\ Deep(heap, call.transformed) # call.first
  /\ "metadata" \in DOMAIN call.before
  /\ "namespace" \in DOMAIN call.before["metadata"].val
  /\ "labels" \in DOMAIN call.before["metadata"].val
  /\ call.before["metadata"].val["namespace"].val = <<"ns1">>
  /\ Deep(heap, call.transformed)["metadata"].val["namespace"].val = <<"t1">>
  /\ "app" \in DOMAIN call.first["metadata"].val["labels"].val

\* metadata.namespace and metadata.name of a manifest (<<>> when it has none)
NamespaceOf(manifest) ==
  IF "metadata" \in DOMAIN manifest /\ "namespace" \in DOMAIN manifest["metadata"].val
  THEN manifest["metadata"].val["namespace"].val ELSE <<>>

NameOf(manifest) ==
  IF "metadata" \in DOMAIN manifest /\ "name" \in DOMAIN manifest["metadata"].val
  THEN manifest["metadata"].val["name"].val ELSE <<>>

\* C21: the transformed manifest keeps the kind and the name of the resource;
\* its namespace is the single entry of target_namespaces when the resource
\* has a namespace and exactly one target is given, and otherwise it is the
\* namespace of the resource as it was given (none stays none).
C21_NamespaceMapping ==
  call.calls = 1 =>
    LET out == Deep(heap, call.transformed)
        targets == call.request.target_namespaces
    IN  /\ out["kind"] = call.before["kind"]
        /\ NameOf(out) = NameOf(call.before)
        /\ NamespaceOf(out) =
             IF NamespaceOf(call.before) # <<>> /\ Len(targets) = 1
             THEN <<targets[1]>> ELSE NamespaceOf(call.before)
        /\ NamespaceOf(call.before) = <<>> =>
             ("metadata" \in DOMAIN out /\ "namespace" \notin DOMAIN out["metadata"].val)

C21_Witness ==
  /\ call.calls = 1
  /\ NamespaceOf(call.before) = <<"ns1">>
  /\ call.request.target_namespaces = <<"t1">>
  /\ NamespaceOf(Deep(heap, call.transformed)) = <<"t1">>
  /\ NameOf(Deep(heap, call.transformed)) = <<"cm">>

\* Range of a sequence
Range(s) == {s[k] : k \in 1..Len(s)}

\* C22: a restore whose manifests fail validation (apiVersion, kind or
\* metadata missing) fails in Preparation: Preparation is the last phase it
\* entered before Failed, it never enters GitOpsSync, and it neither commits
\* nor pushes nor triggers a sync.
C22_InvalidManifestFailsInPreparation ==
  \A t \in Tasks :
    tasks[t].exc = MsgManifest =>
      /\ tasks[t].pc = FAILED
      /\ tasks[t].entered = <<PLANNING, VALIDATION, PREPARATION, FAILED>>
      /\ GITOPS_SYNC \notin Range(tasks[t].entered)
      /\ "commit_push" \notin Range(tasks[t].effects)
      /\ "trigger_sync" \notin Range(tasks[t].effects)
      /\ \E k \in 1..Len(restore_history) :
           /\ restore_history[k].restore_id = tasks[t].request.restore_id
           /\ ~restore_history[k].success
           /\ restore_history[k].error_summary = MsgManifest

C22_Witness ==
  \E t \in Tasks :
    /\ tasks[t].exc = MsgManifest
    /\ tasks[t].pc = FAILED
    /\ "clone" \in Range(tasks[t].effects)
    /\ progress[tasks[t].ref].phase = FAILED

\* what a task has in exc when the clone, or the commit and push, failed
RepositoryFailures ==
  {MsgRaised("clone_gitops_repo"), MsgDestinationExists, MsgRaised("commit_gitops_manifests")}

C24_SyncTimeoutWarns ==
  \A t \in Tasks :
    VERIFICATION \in Range(tasks[t].entered) =>
      \E k \in 1..Len(progress[tasks[t].ref].warnings) :
           progress[tasks[t].ref].warnings[k][1] # "Conflict detected"

\* C25: a restore whose health report counts unhealthy resources still ends
\* Completed, with a result of success = true whose recommendations surface
\* them; a restore whose ready-wait or health check raised ends Failed.
C25_UnhealthySurfacedNotFatal ==
  \A t \in Tasks :
    /\ ( /\ tasks[t].pc = COMPLETED
         /\ \E k \in 1..Len(tasks[t].health_reports) :
              tasks[t].health_reports[k].unhealthy_resources > 0 )
       => \E k \in 1..Len(restore_history) :
            /\ restore_history[k].restore_id = tasks[t].request.restore_id
            /\ restore_history[k].success
            /\ restore_history[k].recommendations # None
    /\ tasks[t].exc \in {MsgRaised("wait_for_resources_ready"),
                         MsgRaised("validate_resource_health")}
       => tasks[t].pc = FAILED

\* C26: the result of a restore that ended Completed lists exactly one commit,
\* the one its GitOpsSync phase made and pushed.
C26_GitCommitsHasTheCommit ==
  \A t \in Tasks :
    tasks[t].pc = COMPLETED =>
      /\ "commit_push" \in Range(tasks[t].effects)
      /\ \E k \in 1..Len(restore_history) :
           /\ restore_history[k].restore_id = tasks[t].request.restore_id
           /\ restore_history[k].success
           /\ Len(restore_history[k].git_commits) = 1

\* C27: the result of a restore that ended Completed has resources_restored
\* equal to the resources_total its plan put in the RestoreProgress.
C27_ResourcesRestoredIsTotal ==
  \A t \in Tasks :
    tasks[t].pc = COMPLETED =>
      \E k \in 1..Len(restore_history) :
        /\ restore_history[k].restore_id = tasks[t].request.restore_id
        /\ restore_history[k].success
        /\ restore_history[k].resources_restored = progress[tasks[t].ref].resources_total

\* a task that has run its first step and has not ended
InFlight(t) == tasks[t].pc \notin Terminal \cup {Scheduled}

\* C28: no two restore tasks with the same restore_id are in flight together.
C28_OneTaskInFlightPerId ==
  \A t, u \in Tasks :
    (t # u /\ InFlight(t) /\ InFlight(u)) =>
      tasks[t].request.restore_id # tasks[u].request.restore_id

\* the restore_id of task t is the id of no other task
UniqueId(t) ==
  \A u \in Tasks \ {t} : tasks[u].request.restore_id # tasks[t].request.restore_id

\* the phase task t wrote last (before its first step: the phase start_restore
\* gave the RestoreProgress) and the errors it has written
LastPhase(t) ==
  IF tasks[t].entered = <<>> THEN PLANNING ELSE tasks[t].entered[Len(tasks[t].entered)]
ErrorsWritten(t) == IF tasks[t].exc = None THEN <<>> ELSE <<tasks[t].exc>>

\* C29: for a restore with an id of its own that was not cancelled (its entry
\* is there while it runs), get_restore_status(id) returns, until the task
\* ends, the RestoreProgress made for it, holding the phase and the errors the
\* task wrote last; once the task has ended Completed or Failed,
\* list_restore_history returns a result with its id, that phase and, when
\* Failed, the error.
C29_StatusThenHistory ==
  \A t \in Tasks :
    UniqueId(t) =>
      LET id == tasks[t].request.restore_id IN
      /\ (tasks[t].pc \notin Terminal /\ Contains(active_restores, id)) =>
           /\ get_restore_status(id) = t
           /\ tasks[t].ref \in {0, t}
           /\ progress[get_restore_status(id)].phase = LastPhase(t)
           /\ progress[get_restore_status(id)].errors = ErrorsWritten(t)
      /\ tasks[t].pc \in {COMPLETED, FAILED} =>
           /\ get_restore_status(id) = 0
           /\ progress[tasks[t].ref].phase = LastPhase(t)
           /\ progress[tasks[t].ref].errors = ErrorsWritten(t)
           /\ \E k \in 1..Len(restore_history) :
                LET result == list_restore_history(restore_history, Len(restore_history))[k]
                IN  /\ result.restore_id = id
                    /\ result.phase = LastPhase(t)
                    /\ result.phase = tasks[t].pc
                    /\ result.success = (tasks[t].pc = COMPLETED)
                    /\ result.error_summary = tasks[t].exc

C29_Witness ==
  \E t, u \in Tasks :
    /\ UniqueId(t) /\ UniqueId(u)
    /\ tasks[t].pc = FAILED
    /\ LastPhase(t) = FAILED
    /\ Len(tasks[t].entered) >= 4
    /\ get_restore_status(tasks[t].request.restore_id) = 0
    /\ tasks[u].pc = "monitor_gitops_sync"
    /\ ret.op = "get_restore_status" /\ ret.id = tasks[u].request.restore_id
    /\ ret.value = u
    /\ progress[ret.value].phase = GITOPS_SYNC

\* the error message the claim promises for a generation that failed: no
\* binary, a timeout, a non-zero exit code
ExpectedError ==
  IF trigger.gitops_binary = None THEN MsgBinaryNotFound
  ELSE IF trigger.outcomes[1].kind = "timeout" THEN MsgTimedOut(max_wait_time)
  ELSE IF trigger.outcomes[1].kind = "exit"
  THEN MsgExitCode(trigger.outcomes[1].returncode, trigger.outcomes[1].stderr)
  ELSE <<"Exec format error">>

GenerationSucceeded ==
  /\ trigger.outcomes # <<>>
  /\ trigger.outcomes[1].kind = "exit"
  /\ trigger.outcomes[1].returncode = 0

\* C30: handle_backup_completion returns a result and raises nothing; with
\* auto-triggering enabled, a generation that failed (no binary, timeout,
\* non-zero exit, or the process not starting) gives success = false, method
\* direct_invocation and the error message, without a second attempt, and a
\* generation that succeeded gives success = true, method direct_invocation
\* and the generator's output after exactly one run of the generator.
C30_HandlerNeverRaises ==
  /\ trigger.calls > 0 => ~trigger.raised
  /\ (trigger.calls > 0 /\ trigger.pc = "returned" /\ trigger.enabled) =>
       /\ trigger.result.method = "direct_invocation"
       /\ Len(trigger.runs) = (IF trigger.gitops_binary = None THEN 0 ELSE 1)
       /\ IF GenerationSucceeded
          THEN /\ trigger.result.success
               /\ trigger.result.error = <<>>
               /\ Len(trigger.runs) = 1
               /\ trigger.result.metadata.backup_id = trigger.event.backup_id
          ELSE /\ ~trigger.result.success
               /\ trigger.result.error # <<>>
               /\ trigger.result.error = ExpectedError

C30_Witness ==
  /\ trigger.calls = 2
  /\ trigger.pc = "returned"
  /\ trigger.enabled
  /\ ~trigger.result.success
  /\ trigger.result.method = "direct_invocation"
  /\ trigger.result.error = MsgTimedOut(max_wait_time)
  /\ Len(trigger.runs) = 1

\* C31: with auto-triggering disabled, every call of handle_backup_completion
\* returns success = true with method "disabled" and no error, whatever the
\* event, and the generator is never run (no command is built, no process
\* started, the handler is never inside subprocess.run).
C31_DisabledRunsNothing ==
  ~trigger.enabled =>
    /\ trigger.pc # "subprocess_run"
    /\ trigger.runs = <<>>
    /\ trigger.outcomes = <<>>
    /\ ~trigger.raised
    /\ trigger.calls > 0 =>
         /\ trigger.pc = "returned"
         /\ trigger.result.success
         /\ trigger.result.method = "disabled"
         /\ trigger.result.error = <<>>

C31_Witness ==
  /\ ~trigger.enabled
  /\ trigger.calls = 2
  /\ trigger.pc = "returned"
  /\ ~trigger.event.success
  /\ trigger.gitops_binary # None
  /\ trigger.result.method = "disabled"

\* the files the current scan has still to come to
Remaining == {monitor.trigger_files[k] : k \in 1..Len(monitor.trigger_files)}

\* C32: a trigger file is handled once in every scan from the first scan that
\* lists it until its handling succeeds, whatever happened to the other files
\* of the scan; the successful handling is its last one, after which it is
\* marked processed and gone from the directory; a file whose handlings all
\* failed or raised is still in the directory and not marked.
C32_MonitorHandlesEachFile ==
  \A f \in FileNames :
    /\ f \in monitor.processed_files =>
         /\ f \notin monitor.files
         /\ monitor.last[f] = "success"
         /\ monitor.handled[f] = monitor.failures[f] + 1
         /\ monitor.handled[f] <= monitor.scans - monitor.first[f] + 1
    /\ (f \in monitor.written /\ f \notin monitor.processed_files) =>
         /\ f \in monitor.files
         /\ monitor.last[f] # "success"
         /\ monitor.handled[f] = monitor.failures[f]
    /\ (monitor.first[f] # 0 /\ f \notin monitor.processed_files
          /\ monitor.pc # "stopped") =>
         monitor.handled[f] =
           IF monitor.pc = "for" /\ f \in Remaining
           THEN monitor.scans - monitor.first[f]
           ELSE monitor.scans - monitor.first[f] + 1
    /\ monitor.first[f] = 0 => monitor.handled[f] = 0

C32_Witness ==
  /\ monitor.pc = "sleep"
  /\ monitor.scans = 3
  /\ monitor.first["f1"] = 1 /\ monitor.first["f2"] = 1 /\ monitor.first["f3"] = 2
  /\ monitor.handled["f1"] = 3 /\ monitor.failures["f1"] = 3
  /\ monitor.last["f1"] = "raised"
  /\ "f2" \in monitor.processed_files /\ monitor.handled["f2"] = 2
  /\ "f3" \in monitor.processed_files /\ monitor.handled["f3"] = 1
  /\ monitor.files = {"f1"}

\* C33: on a RestoreProgress, every value percent_complete takes on the exit
\* of a phase stands for one step more than the value before it
\* (percent_complete * total_steps = steps_completed * 100), the current
\* percent_complete agrees with steps_completed until the restore completes,
\* and steps_completed <= total_steps while the restore is not terminal.
C33_StepsAdvanceByOne ==
  \A o \in Objects :
    /\ \A k \in 2..Len(percent_hist[o]) :
         \/ percent_hist[o][k] = <<100, 1>>
         \/ percent_hist[o][k][1] * progress[o].total_steps * percent_hist[o][k - 1][2] =
              (percent_hist[o][k - 1][1] * progress[o].total_steps
                 + 100 * percent_hist[o][k - 1][2]) * percent_hist[o][k][2]
    /\ progress[o].phase # COMPLETED =>
         progress[o].percent_complete[1] * progress[o].total_steps =
           progress[o].steps_completed * 100 * progress[o].percent_complete[2]
    /\ progress[o].phase \notin {COMPLETED, FAILED} =>
         progress[o].steps_completed <= progress[o].total_steps

\* position of e in the sequence s, 0 when it is not there
IndexOf(s, e) == IF e \in Range(s) THEN CHOOSE k \in 1..Len(s) : s[k] = e ELSE 0

\* task t is in, or past, the monitoring of its sync
Monitoring(t) ==
  \/ tasks[t].pc \in {"monitor_gitops_sync", "wait_for_resources_ready", "run_functional_tests"}
  \/ VERIFICATION \in Range(tasks[t].entered)

C35_MonitorChangesCurrentStepOnly ==
  /\ [](\A t \in Tasks : tasks[t].i < sync_duration)
  /\ [][\A t \in Tasks :
          (tasks[t].pc = "monitor_gitops_sync" /\ tasks'[t] # tasks[t]) =>
            /\ tasks'[t].i = tasks[t].i + 1 \/ tasks'[t].pc # "monitor_gitops_sync"
            /\ tasks'[t].pc = "monitor_gitops_sync" =>
                 /\ progress' = [progress EXCEPT ![tasks[t].ref].current_step =
                                   <<"GitOps sync in progress", tasks'[t].i, sync_duration>>]
                 /\ progress'[tasks[t].ref].current_step # progress[tasks[t].ref].current_step
                 /\ active_restores' = active_restores
                 /\ restore_history' = restore_history
                 /\ phase_hist' = phase_hist
                 /\ percent_hist' = percent_hist]_vars

C35_Witness ==
  \E t, u \in Tasks :
    /\ t # u
    /\ tasks[t].pc = "monitor_gitops_sync"
    /\ tasks[t].i = sync_duration - 1
    /\ progress[tasks[t].ref].current_step =
         <<"GitOps sync in progress", sync_duration - 1, sync_duration>>
    /\ progress[tasks[t].ref].phase = GITOPS_SYNC
    /\ tasks[u].pc \notin Terminal \cup {Scheduled}
    /\ tasks[u].ref # tasks[t].ref

\* the plan _phase_planning made for task t
PlanOf(t) == create_restore_plan(tasks[t].request, CHOOSE m \in BackupMetadata : TRUE)

\* C36: once a restore is through Planning, its RestoreProgress holds the
\* plan's totals: resources_total is the sum of the backup's resource counts,
\* and total_steps is 7 unless the scenario is cluster-rebuild, whose plan
\* requires the cluster bootstrap, has more than 7 steps and a longer
\* estimated duration than the 30 minutes of the other scenarios.
C36_PlanTotals ==
  \A t \in Tasks :
    (VALIDATION \in Range(tasks[t].entered) /\ tasks[t].ref = t) =>
      /\ PlanOf(t).total_resources = 5 + 12 + 8 + 15 + 6
      /\ progress[t].resources_total = PlanOf(t).total_resources
      /\ progress[t].total_steps = PlanOf(t).total_steps
      /\ IF tasks[t].request.dr_scenario = CLUSTER_REBUILD
         THEN /\ PlanOf(t).requires_cluster_bootstrap
              /\ PlanOf(t).estimated_duration > 30
              /\ PlanOf(t).total_steps > 7
         ELSE /\ ~PlanOf(t).requires_cluster_bootstrap
              /\ PlanOf(t).estimated_duration = 30
              /\ PlanOf(t).total_steps = 7

\* C37: an entry leaves active_restores only in a cancel_restore of its id or
\* in the step in which the task scheduled together with it (the task made by
\* the start_restore that registered it) ends; and a task writes only to the
\* RestoreProgress registered together with it.
C37_EntryRemovedByItsOwnTask ==
  [][/\ \A id \in RestoreIds :
          (Contains(active_restores, id) /\
             (~Contains(active_restores', id) \/ active_restores'[id] # active_restores[id])) =>
            \/ ret'.op = "cancel_restore" /\ ret'.id = id
            \/ ret'.op = "start_restore" /\ ret'.id = id
            \/ LET owner == active_restores[id]
               IN  tasks[owner].pc \notin Terminal /\ tasks'[owner].pc \in Terminal
     /\ \A t \in Tasks : tasks'[t].ref \in {0, t}]_vars

\* C38: every result in the history is either a success (phase Completed, no
\* error_summary, resources_failed 0) or a failure (phase Failed, an
\* error_summary, resources_failed at least 1).
C38_ResultsWellFormed ==
  \A k \in 1..Len(restore_history) :
    LET result == restore_history[k] IN
    /\ result.phase \in {COMPLETED, FAILED}
    /\ result.success = (result.phase = COMPLETED)
    /\ (result.error_summary # None) = ~result.success
    /\ IF result.success THEN result.resources_failed = 0
       ELSE result.resources_failed >= 1

ReadOnlyCalls == {"get_restore_status", "list_restore_history", "get_dr_capabilities"}

\* C40: get_restore_status, list_restore_history and get_dr_capabilities are
\* read-only: a step that is one of these calls leaves active_restores,
\* restore_history and every RestoreProgress as they were, and starts, advances
\* and stops no restore task (the tasks, what they are bound to and what they
\* have on disk stay as they were).
C40_ReadOnlyCalls ==
  [][ret'.op \in ReadOnlyCalls =>
       /\ active_restores' = active_restores
       /\ restore_history' = restore_history
       /\ progress' = progress
       /\ tasks' = tasks
       /\ phase_hist' = phase_hist
       /\ percent_hist' = percent_hist
       /\ work_dir' = work_dir
       /\ gitops_repo' = gitops_repo
       /\ auto_sync' = auto_sync]_vars

\* get_dr_capabilities has answered while one restore was in flight and
\* another had ended
C40_Witness ==
  /\ ret.op = "get_dr_capabilities"
  /\ ret.rows.gitops_integration.auto_sync = auto_sync
  /\ active_restores # <<>>
  /\ restore_history # <<>>
  /\ \E t \in Tasks : tasks[t].pc \notin Terminal \cup {Scheduled}

====
